---- MODULE Spec2Model ----
(***************************************************************************)
(* Model of the Slack-Clone client (src/src/App.tsx and its libraries).    *)
(*                                                                         *)
(* React is modelled as follows.  The record s holds the component state   *)
(* with every queued setState already applied (updates are applied in      *)
(* queue order, so this is the value the next render sees).  A handler or  *)
(* subscription callback is one action.  The passive effects of a render   *)
(* are one action, Flush: it runs the cleanups and then the bodies, in     *)
(* source order, of every effect whose dependencies differ from the ones   *)
(* it last ran with (d); all bodies read the values of the same render.    *)
(* Effects of a non-discrete update are deferred, so a subscription        *)
(* callback may run while effects are pending; a click handler is followed *)
(* by the flush of its effects in the same step.                           *)
(***************************************************************************)
EXTENDS Integers, Sequences, FiniteSets, TLC

(***************************************************************************)
(* Bounds of the model.                                                    *)
(***************************************************************************)
MaxCount == 2
MaxAuthChanges == 2

Null == "null"

(***************************************************************************)
(* Text.  A string is a sequence of one-character strings; an HTML tag is  *)
(* one element of the sequence (the text is already lexed).                *)
(***************************************************************************)
Lower == {"a", "b", "d", "l", "o", "x"}
HandlePunct == {".", "_", "-"}
Tags == {"<b>", "</b>"}
ZeroWidthSpace == "zwsp"
Whitespace == {" "}

ToLowerChar(c) == IF c = "A" THEN "a" ELSE IF c = "B" THEN "b" ELSE c

ToLower(str) == [i \in 1..Len(str) |-> ToLowerChar(str[i])]

RECURSIVE TrimStart(_)
TrimStart(str) ==
  IF str # <<>> /\ Head(str) \in Whitespace THEN TrimStart(Tail(str)) ELSE str

RECURSIVE TrimEnd(_)
TrimEnd(str) ==
  IF str # <<>> /\ str[Len(str)] \in Whitespace
  THEN TrimEnd(SubSeq(str, 1, Len(str) - 1))
  ELSE str

Trim(str) == TrimEnd(TrimStart(str))

Includes(seq, x) == \E i \in 1..Len(seq) : seq[i] = x

\* /[^a-z0-9._-]+/g : the characters the pattern does not remove
IsHandleChar(c) == c \in Lower \cup HandlePunct

\* an absent (undefined) string is the empty string: both are falsy
sanitizeUsername(value) ==
  IF value = <<>> THEN <<>>
  ELSE SelectSeq(ToLower(value), IsHandleChar)

buildUsernameCandidates(displayName, fallback) ==
  LET normalizedFallback == sanitizeUsername(fallback)
      normalizedDisplay == sanitizeUsername(displayName)
      c1 == IF normalizedFallback # <<>> THEN <<normalizedFallback>> ELSE <<>>
  IN IF normalizedDisplay # <<>> /\ ~Includes(c1, normalizedDisplay)
     THEN Append(c1, normalizedDisplay)
     ELSE c1

\* email.split('@')[0]
RECURSIVE LocalPart(_)
LocalPart(email) ==
  IF email = <<>> \/ Head(email) = "@" THEN <<>>
  ELSE <<Head(email)>> \o LocalPart(Tail(email))

\* container.textContent with every U+200B removed
plainTextFromHtml(value) ==
  SelectSeq(value, LAMBDA c : c \notin Tags /\ c # ZeroWidthSpace)

\* the longest run of handle characters (case-insensitive) at the head of str
RECURSIVE HandleRun(_)
HandleRun(str) ==
  IF str # <<>> /\ IsHandleChar(ToLowerChar(Head(str)))
  THEN <<Head(str)>> \o HandleRun(Tail(str))
  ELSE <<>>

\* the exec loop of /@([a-z0-9._-]+)/gi over the plain text
RECURSIVE MentionScan(_)
MentionScan(str) ==
  IF str = <<>> THEN <<>>
  ELSE IF Head(str) = "@" /\ HandleRun(Tail(str)) # <<>>
       THEN <<ToLower(HandleRun(Tail(str)))>>
            \o MentionScan(SubSeq(str, 2 + Len(HandleRun(Tail(str))), Len(str)))
       ELSE MentionScan(Tail(str))

extractMentionsFromHtml(html) ==
  IF html = <<>> THEN <<>> ELSE MentionScan(plainTextFromHtml(html))

(***************************************************************************)
(* The backend's data: users, organizations and channels.                  *)
(***************************************************************************)
Users == {"u1", "u2"}
Orgs == {"o1", "o2"}
Channels == {"c1", "c2", "c3"}

\* the e-mail address of the account; u2 has none (authUser.email ?? '')
EmailOf(u) == IF u = "u1" THEN <<"a", "l", "@", "x">> ELSE <<>>

Ada == <<"A", "d", "a">>
Bob == <<"B", "o", "b">>
Blank == <<" ">>
DisplayNames == {Ada, Bob, Blank}
\* the names a user types into the profile form
TypedNames(u) == IF u = "u1" THEN {Ada, Blank} ELSE DisplayNames

\* the position of the organization's name in localeCompare order
OrgNameRank(o) == IF o = "o1" THEN 2 ELSE 1

\* the organizationId of the channel documents: c1 and c2 in o1 and c3 in o2,
\* or all three in o1
ChannelOrg == [c \in Channels |-> IF c = "c3" THEN "o2" ELSE "o1"]
OneOrg == [c \in Channels |-> "o1"]
ChannelsOf(channelOrg, o) == {c \in Channels : channelOrg[c] = o}

\* createdAt of a channel document, when it has one, and the document's
\* position in the query's document order
ChannelHasCreatedAt(c) == TRUE
ChannelCreatedAt(c) == IF c = "c1" THEN 2 ELSE 1
ChannelDocRank(c) == IF c = "c1" THEN 1 ELSE IF c = "c2" THEN 2 ELSE 3

\* Array.prototype.sort (stable) of the elements of S: by key[a][1], and in
\* the order of arrival key[a][2] when the comparator returns 0
RECURSIVE SortBy(_, _)
SortBy(S, key) ==
  IF S = {} THEN <<>>
  ELSE LET m == CHOOSE a \in S : \A b \in S :
                  \/ key[a][1] < key[b][1]
                  \/ (key[a][1] = key[b][1] /\ key[a][2] <= key[b][2])
       IN <<m>> \o SortBy(S \ {m}, key)

Range(seq) == {seq[i] : i \in 1..Len(seq)}

\* fetchOrganizationsForUser: the user's organizations sorted by name
fetchOrganizationsForUser(members) ==
  SortBy(members, [o \in members |-> <<OrgNameRank(o), OrgNameRank(o)>>])

\* the comparator of listenToChannels: (a.createdAt ?? 0) - (b.createdAt ?? 0)
ChannelTime(c) == IF ChannelHasCreatedAt(c) THEN ChannelCreatedAt(c) ELSE 0
ChannelSnapshot(docs) ==
  SortBy(docs, [c \in docs |-> <<ChannelTime(c), ChannelDocRank(c)>>])

\* the messages watchers are fed with: authors are another member, the
\* user's own name in another case and padded, and a blank name; texts are
\* without mention, with @Al split by a tag, and with @ada
Authors == {Bob, <<" ", "A", "D", "a", " ">>, <<" ">>}
Hi == <<"h", "i">>
AtAl == <<"@", "A", "<b>", "l", "</b>", "!">>
AtAda == <<"x", "@", "a", "d", "a", " ", "@">>
Texts == {Hi, AtAl, AtAda}
Messages ==
  {m \in [author : Authors, text : Texts] :
     \/ m.author = Bob
     \/ m.text = AtAl
     \/ m.text = AtAda /\ m.author # <<" ">>}
\* what a channel may hold when a watcher attaches
Existing == {<<>>, <<[author |-> Bob, text |-> AtAl]>>, <<[author |-> Bob, text |-> AtAda]>>}

(***************************************************************************)
(* localStorage: a function from keys to values.  The key                  *)
(* slack-clone:organization:<u> is <<"organization", u>> and               *)
(* slack-clone:channel:<u>:<o> is <<"channel", u, o>>: the ids are made by *)
(* Firebase (createUserWithEmailAndPassword, addDoc) and hold no colon.    *)
(***************************************************************************)
\* a key that is the same for every user
organizationStorageKeyShared(userId) == <<"organization", "u1">>

organizationStorageKey(userId) == <<"organization", userId>>
channelStorageKey(userId, organizationId) == <<"channel", userId, organizationId>>

getItem(st, key) == IF key \in DOMAIN st THEN st[key] ELSE Null
removeItem(st, key) == [k \in DOMAIN st \ {key} |-> st[k]]
setItem(st, key, value) == [k \in DOMAIN st \cup {key} |-> IF k = key THEN value ELSE st[k]]

readStoredOrganizationId(st, userId) == getItem(st, organizationStorageKey(userId))

persistOrganizationId(st, userId, organizationId) ==
  IF organizationId = Null
  THEN removeItem(st, organizationStorageKey(userId))
  ELSE setItem(st, organizationStorageKey(userId), organizationId)

readStoredChannelId(st, userId, organizationId) ==
  IF organizationId = Null THEN Null
  ELSE getItem(st, channelStorageKey(userId, organizationId))

persistChannelId(st, userId, organizationId, channelId) ==
  IF organizationId = Null THEN st
  ELSE IF channelId = Null
       THEN removeItem(st, channelStorageKey(userId, organizationId))
       ELSE setItem(st, channelStorageKey(userId, organizationId), channelId)

clearStoredSelectionsForUser(st, userId) ==
  LET st1 == persistOrganizationId(st, userId, Null)
      keysToRemove == {k \in DOMAIN st1 : k[1] = "channel" /\ k[2] = userId}
  IN [k \in DOMAIN st1 \ keysToRemove |-> st1[k]]

(***************************************************************************)
(* The mention-count map: a function whose domain is the set of its keys.  *)
(***************************************************************************)
EmptyMap == <<>>
CountOf(m, c) == IF c \in DOMAIN m THEN m[c] ELSE 0

\* an updater that drops every count with the selected one
ClearEveryCount(current, selectedChannelId) ==
  IF CountOf(current, selectedChannelId) = 0 THEN current ELSE EmptyMap

\* the updater of the selectedChannelId effect
ClearSelectedCount(current, selectedChannelId) ==
  IF CountOf(current, selectedChannelId) = 0 THEN current
  ELSE [k \in DOMAIN current \ {selectedChannelId} |-> current[k]]

\* an updater that counts a mention twice
IncrementCountTwice(current, channelId) ==
  [k \in DOMAIN current \cup {channelId} |->
     IF k = channelId THEN CountOf(current, channelId) + 2 ELSE current[k]]

\* an updater without the spread of the current map
IncrementCountAlone(current, channelId) ==
  [k \in {channelId} |-> CountOf(current, channelId) + 1]

\* the updater of the watcher callback
IncrementCount(current, channelId) ==
  [k \in DOMAIN current \cup {channelId} |->
     IF k = channelId THEN CountOf(current, channelId) + 1 ELSE current[k]]

(***************************************************************************)
(* Values derived during a render.                                         *)
(***************************************************************************)
activeUserId(r) == r.authUser

\* no profile (null)
NoProfile == [id |-> Null, displayName |-> <<>>, email |-> <<>>]

\* no username (null): a derived handle is never the empty string
NoUsername == <<>>

\* every profile of the model
Profiles ==
  {NoProfile} \cup
  {[id |-> u, displayName |-> dn, email |-> EmailOf(u)] : u \in Users, dn \in DisplayNames}

\* the function of the useMemo at 354-361, and its values per profile
usernameCandidatesOf(profile) ==
  IF profile = NoProfile THEN <<>>
  ELSE buildUsernameCandidates(
         profile.displayName,
         IF profile.email # <<>> THEN LocalPart(profile.email) ELSE <<>>)

UsernameCandidates == [profile \in Profiles |-> usernameCandidatesOf(profile)]

currentUsernameCandidates(profile) == UsernameCandidates[profile]

currentUsername(profile) ==
  IF Len(currentUsernameCandidates(profile)) > 0
  THEN currentUsernameCandidates(profile)[1]
  ELSE NoUsername

currentUsernameAliases(profile) ==
  IF Len(currentUsernameCandidates(profile)) > 1
  THEN Tail(currentUsernameCandidates(profile))
  ELSE <<>>

(***************************************************************************)
(* The state.                                                              *)
(*   s      the component state of App (useState)                          *)
(*   refs   the useRef cells of App                                        *)
(*   store  window.localStorage                                            *)
(*   subs   the backend subscriptions that were opened: id -> record;      *)
(*          open: unsubscribe was not called, unsubCalls: its calls,       *)
(*          initialized: the first snapshot was delivered, failed: the     *)
(*          backend ended the listener with an error                       *)
(*   fx     the effects' bookkeeping: whether they ran, the dependencies   *)
(*          they last ran with, and the unsubscribe functions their        *)
(*          cleanups hold                                                  *)
(*   loads  the asynchronous loads in flight, with their cancelled flags   *)
(*   env    mounted, the pending handleSignOut, the auth-change counter,   *)
(*          the organization of each channel document                      *)
(***************************************************************************)
VARIABLES s, refs, store, subs, fx, loads, env

vars == <<s, refs, store, subs, fx, loads, env>>

\* a subscription id is <<kind, target, n>>; NoSub is no subscription
NoSub == <<"none", "none", 0>>

World == [s |-> s, refs |-> refs, store |-> store, subs |-> subs, fx |-> fx,
          loads |-> loads]

Profile(u, displayName) == [id |-> u, displayName |-> displayName, email |-> EmailOf(u)]

\* channelsLoading and error (App.tsx 113, 124) are part of the state in the
\* specification of the channel listener; the other specifications leave
\* them out, and a handler sets them where the state has them
SetIfPresent(state, field, value) ==
  IF field \in DOMAIN state THEN [state EXCEPT ![field] = value] ELSE state

InitialState ==
  [authUser |-> Null, profile |-> NoProfile, organizations |-> <<>>,
   selectedOrganizationId |-> Null, channels |-> <<>>, selectedChannelId |-> Null,
   messages |-> Null, mentionCounts |-> EmptyMap, showOrganizationPicker |-> FALSE]

InitialRefs ==
  [lastUserId |-> Null, mentionListeners |-> EmptyMap, selectedChannelId |-> Null,
   profile |-> NoProfile, currentUsername |-> NoUsername,
   currentUsernameAliases |-> <<>>]

\* what an earlier session of u1 may have left in localStorage
InitialStores ==
  { (organizationStorageKey("u1") :> "o1") @@ (channelStorageKey("u1", "o1") :> "c1") }

Deps(r) ==
  [profile |-> r.profile, selectedChannelId |-> r.selectedChannelId,
   authUser |-> r.authUser, selectedOrganizationId |-> r.selectedOrganizationId,
   channels |-> r.channels]

Start(channelOrg, stores) ==
  /\ s = InitialState
  /\ refs = InitialRefs
  /\ store \in stores
  /\ subs = EmptyMap
  /\ fx = [ran |-> FALSE, d |-> Deps(InitialState), chanSub |-> NoSub, msgSub |-> NoSub]
  /\ loads = [profile |-> Null, profileCancelled |-> {}, org |-> Null, orgCancelled |-> {}]
  /\ env = [mounted |-> TRUE, signOut |-> "idle", authChanges |-> 0,
            channelOrg |-> channelOrg]

Init == Start(ChannelOrg, InitialStores)

(***************************************************************************)
(* Subscriptions.  onSnapshot returns an unsubscribe function; the record  *)
(* counts its calls.  A subscription that was unsubscribed once and that   *)
(* nothing refers to any more is forgotten (Collect).                      *)
(***************************************************************************)
NewSubId(sb, kind, target) ==
  LET n == CHOOSE i \in 1..(Cardinality(DOMAIN sb) + 1) :
             /\ <<kind, target, i>> \notin DOMAIN sb
             /\ \A j \in 1..(i - 1) : <<kind, target, j>> \in DOMAIN sb
  IN <<kind, target, n>>

Subscription(kind, target, user) ==
  [kind |-> kind, target |-> target, user |-> user, open |-> TRUE,
   unsubCalls |-> 0, initialized |-> FALSE, failed |-> FALSE, logged |-> FALSE]

AddSub(sb, id, sub) == [i \in DOMAIN sb \cup {id} |-> IF i = id THEN sub ELSE sb[i]]

Unsubscribe(sb, ids) ==
  [i \in DOMAIN sb |->
     IF i \in ids
     THEN [sb[i] EXCEPT !.open = FALSE,
                        !.unsubCalls = IF @ < 2 THEN @ + 1 ELSE @]
     ELSE sb[i]]

MapValues(m) == {m[k] : k \in DOMAIN m}

Referenced(w) ==
  MapValues(w.refs.mentionListeners) \cup ({w.fx.chanSub, w.fx.msgSub} \ {NoSub})

Collect(w) ==
  LET keep == {i \in DOMAIN w.subs :
                 w.subs[i].open \/ w.subs[i].unsubCalls # 1 \/ i \in Referenced(w)}
  IN [w EXCEPT !.subs = [i \in keep |-> w.subs[i]]]

Commit(w) ==
  LET c == Collect(w)
  IN /\ s' = c.s
     /\ refs' = c.refs
     /\ store' = c.store
     /\ subs' = c.subs
     /\ fx' = c.fx
     /\ loads' = c.loads

(***************************************************************************)
(* The watcher callback of the mention effect (App.tsx 480-515).           *)
(***************************************************************************)
\* name.trim().toLowerCase() of the names, and the mention tokens of the
\* texts, of the model
Normalized == [name \in Authors \cup DisplayNames |-> ToLower(Trim(name))]
\* the texts of the messages a watcher is fed with one at a time: every
\* text of up to MaxTextLen characters
MaxTextLen == 4
MentionTexts ==
  UNION {[1..n -> {"@", "A", "d", ".", " ", "<b>"}] : n \in 0..MaxTextLen}

\* the tokens of the texts of the application model are computed once
MentionTokens == [text \in Texts |-> extractMentionsFromHtml(text)]

MatchesMentionPrimaryOnly(message, username, usernameAliases) ==
  LET mentionTokens == IF message.text \in Texts THEN MentionTokens[message.text]
                       ELSE extractMentionsFromHtml(message.text)
  IN Includes(mentionTokens, ToLower(username))

IsSelfAuthored(message, currentProfile) ==
  LET normalizedAuthor == Normalized[message.author]
  IN /\ Len(normalizedAuthor) > 0
     /\ normalizedAuthor = Normalized[currentProfile.displayName]

MatchesMention(message, username, usernameAliases) ==
  LET mentionTokens == IF message.text \in Texts THEN MentionTokens[message.text]
                       ELSE extractMentionsFromHtml(message.text)
  IN \/ Includes(mentionTokens, ToLower(username))
     \/ \E i \in 1..Len(usernameAliases) : Includes(mentionTokens, usernameAliases[i])

\* the watcher callback without the test of the selected channel
OnNewMessageCountsSelected(w, channelId, message) ==
  LET username == w.refs.currentUsername
      currentProfile == w.refs.profile
      usernameAliases == w.refs.currentUsernameAliases
  IN IF username = NoUsername \/ currentProfile = NoProfile THEN w
     ELSE IF IsSelfAuthored(message, currentProfile) THEN w
     ELSE IF ~MatchesMention(message, username, usernameAliases) THEN w
     ELSE [w EXCEPT !.s.mentionCounts = IncrementCount(@, channelId)]

OnNewMessage(w, channelId, message) ==
  LET username == w.refs.currentUsername
      currentProfile == w.refs.profile
      activeChannelId == w.refs.selectedChannelId
      usernameAliases == w.refs.currentUsernameAliases
  IN IF username = NoUsername \/ currentProfile = NoProfile THEN w
     ELSE IF IsSelfAuthored(message, currentProfile) THEN w
     ELSE IF ~MatchesMention(message, username, usernameAliases) THEN w
     ELSE IF activeChannelId = channelId THEN w
     ELSE [w EXCEPT !.s.mentionCounts = IncrementCount(@, channelId)]

(***************************************************************************)
(* listenForNewMessages: the first snapshot of the query (the messages     *)
(* that exist when the watch starts) is not passed on; every message added *)
(* by a later snapshot is passed to the callback.                          *)
(***************************************************************************)
RECURSIVE FeedWatcher(_, _, _)
FeedWatcher(w, channelId, added) ==
  IF added = <<>> THEN w
  ELSE FeedWatcher(OnNewMessage(w, channelId, Head(added)), channelId, Tail(added))

\* a listener that passes the messages of its first snapshot on as well
WatcherSnapshotFeedsAll(w, id, added) ==
  FeedWatcher([w EXCEPT !.subs[id].initialized = TRUE], w.subs[id].target, added)

WatcherSnapshot(w, id, added) ==
  IF ~w.subs[id].initialized
  THEN [w EXCEPT !.subs[id].initialized = TRUE]
  ELSE FeedWatcher(w, w.subs[id].target, added)

(***************************************************************************)
(* The effects of App, in source order.  r is the render the effects       *)
(* belong to; w is the world they act on.                                  *)
(***************************************************************************)
\* 133-135
EffProfileRef(w, r) == [w EXCEPT !.refs.profile = r.profile]

\* 137-149
EffSelectedChannel(w, r) ==
  LET w1 == [w EXCEPT !.refs.selectedChannelId = r.selectedChannelId]
  IN IF r.selectedChannelId = Null THEN w1
     ELSE [w1 EXCEPT !.s.mentionCounts = ClearSelectedCount(@, r.selectedChannelId)]

\* 165-195: cleanup and body
CleanupLoadProfile(w) ==
  IF w.loads.profile = Null THEN w
  ELSE [w EXCEPT !.loads.profileCancelled = @ \cup {w.loads.profile},
                 !.loads.profile = Null]

EffLoadProfile(w, r) ==
  IF r.authUser = Null THEN [w EXCEPT !.s.profile = NoProfile]
  ELSE [w EXCEPT !.loads.profile = r.authUser]

\* an effect that remembers the user and never clears the stored selections
EffLastUserKeepsStore(w, r) ==
  IF activeUserId(r) # Null THEN [w EXCEPT !.refs.lastUserId = activeUserId(r)]
  ELSE [w EXCEPT !.refs.lastUserId = Null]

\* 197-206
EffLastUser(w, r) ==
  IF activeUserId(r) # Null THEN [w EXCEPT !.refs.lastUserId = activeUserId(r)]
  ELSE IF w.refs.lastUserId # Null
       THEN [w EXCEPT !.store = clearStoredSelectionsForUser(@, w.refs.lastUserId),
                      !.refs.lastUserId = Null]
       ELSE w

\* 208-264: cleanup and body
CleanupLoadOrganizations(w) ==
  IF w.loads.org = Null THEN w
  ELSE [w EXCEPT !.loads.orgCancelled = @ \cup {w.loads.org},
                 !.loads.org = Null]

EffLoadOrganizations(w, r) ==
  IF activeUserId(r) = Null
  THEN [w EXCEPT !.s.organizations = <<>>,
                 !.s.selectedOrganizationId = Null,
                 !.s.channels = <<>>,
                 !.s.selectedChannelId = Null,
                 !.s.messages = Null,
                 !.s.showOrganizationPicker = FALSE]
  ELSE [w EXCEPT !.loads.org = activeUserId(r)]

\* 266-271
EffPersistOrganization(w, r) ==
  IF activeUserId(r) = Null \/ r.selectedOrganizationId = Null THEN w
  ELSE [w EXCEPT !.store =
          persistOrganizationId(@, activeUserId(r), r.selectedOrganizationId)]

\* 273-278
EffPersistChannel(w, r) ==
  IF activeUserId(r) = Null \/ r.selectedOrganizationId = Null
     \/ r.selectedChannelId = Null
  THEN w
  ELSE [w EXCEPT !.store =
          persistChannelId(@, activeUserId(r), r.selectedOrganizationId,
                           r.selectedChannelId)]

\* a cleanup that drops the unsubscribe function without calling it
CleanupChannelsLeaks(w) == [w EXCEPT !.fx.chanSub = NoSub]

\* 280-322: cleanup and body
CleanupChannels(w) ==
  IF w.fx.chanSub = NoSub THEN w
  ELSE [w EXCEPT !.subs = Unsubscribe(@, {w.fx.chanSub}), !.fx.chanSub = NoSub]

EffChannels(w, r) ==
  IF r.selectedOrganizationId = Null
  THEN [w EXCEPT !.s.channels = <<>>, !.s.selectedChannelId = Null,
                 !.s = SetIfPresent(@, "channelsLoading", FALSE)]
  ELSE LET id == NewSubId(w.subs, "channels", r.selectedOrganizationId)
       IN [w EXCEPT !.s = SetIfPresent(@, "channelsLoading", TRUE),
                    !.subs = AddSub(@, id, Subscription("channels",
                                r.selectedOrganizationId, activeUserId(r))),
                    !.fx.chanSub = id]

\* a cleanup of the message effect that does not call unsubscribe
CleanupMessagesLeaks(w) == [w EXCEPT !.fx.msgSub = NoSub]

\* 324-339: cleanup and body
CleanupMessages(w) ==
  IF w.fx.msgSub = NoSub THEN w
  ELSE [w EXCEPT !.subs = Unsubscribe(@, {w.fx.msgSub}), !.fx.msgSub = NoSub]

EffMessages(w, r) ==
  IF r.selectedChannelId = Null THEN [w EXCEPT !.s.messages = Null]
  ELSE LET id == NewSubId(w.subs, "messages", r.selectedChannelId)
       IN [w EXCEPT !.subs = AddSub(@, id, Subscription("messages",
                                r.selectedChannelId, Null)),
                    !.fx.msgSub = id]

\* 370-376
EffUsernameRefs(w, r) ==
  [w EXCEPT !.refs.currentUsername = currentUsername(r.profile),
            !.refs.currentUsernameAliases = currentUsernameAliases(r.profile)]

\* a loop that opens a watcher also for a channel that has one
RECURSIVE AddListenersForAll(_, _)
AddListenersForAll(w, chans) ==
  IF chans = <<>> THEN w
  ELSE LET id == NewSubId(w.subs, "mentions", Head(chans))
           w1 == [w EXCEPT
                    !.subs = AddSub(@, id, Subscription("mentions", Head(chans), Null)),
                    !.refs.mentionListeners =
                       [c \in DOMAIN @ \cup {Head(chans)} |->
                          IF c = Head(chans) THEN id ELSE @[c]]]
       IN AddListenersForAll(w1, Tail(chans))

\* 476-516: a watcher for every channel that has none
RECURSIVE AddListeners(_, _)
AddListeners(w, chans) ==
  IF chans = <<>> THEN w
  ELSE IF Head(chans) \in DOMAIN w.refs.mentionListeners
       THEN AddListeners(w, Tail(chans))
       ELSE LET id == NewSubId(w.subs, "mentions", Head(chans))
                w1 == [w EXCEPT
                         !.subs = AddSub(@, id, Subscription("mentions", Head(chans), Null)),
                         !.refs.mentionListeners =
                            [c \in DOMAIN @ \cup {Head(chans)} |->
                               IF c = Head(chans) THEN id ELSE @[c]]]
            IN AddListeners(w1, Tail(chans))

\* a mention effect that keeps the watchers of the channels that left the list
EffMentionListenersKeepStale(w, r) ==
  IF r.profile = NoProfile \/ currentUsername(r.profile) = NoUsername
  THEN [w EXCEPT !.subs = Unsubscribe(@, MapValues(w.refs.mentionListeners)),
                 !.refs.mentionListeners = EmptyMap,
                 !.s.mentionCounts = IF r.profile = NoProfile THEN EmptyMap ELSE @]
  ELSE IF Len(r.channels) = 0
       THEN [w EXCEPT !.s.mentionCounts = EmptyMap]
       ELSE AddListeners(w, r.channels)

\* 445-517
EffMentionListeners(w, r) ==
  LET listeners == w.refs.mentionListeners
      activeChannelIds == Range(r.channels)
      stale == {c \in DOMAIN listeners : c \notin activeChannelIds}
      w1 == [w EXCEPT !.subs = Unsubscribe(@, {listeners[c] : c \in stale}),
                      !.refs.mentionListeners =
                         [c \in DOMAIN listeners \ stale |-> listeners[c]]]
  IN IF r.profile = NoProfile \/ currentUsername(r.profile) = NoUsername
     THEN [w EXCEPT !.subs = Unsubscribe(@, MapValues(listeners)),
                    !.refs.mentionListeners = EmptyMap,
                    !.s.mentionCounts = IF r.profile = NoProfile THEN EmptyMap ELSE @]
     ELSE IF Len(r.channels) = 0
          THEN [w1 EXCEPT !.s.mentionCounts = EmptyMap]
          ELSE AddListeners(w1, r.channels)

\* an effect that leaves the counts
EffKeepCounts(w, r) == w

\* 526-528
EffResetOnOrganization(w, r) == [w EXCEPT !.s.mentionCounts = EmptyMap]

\* an effect that resets the counts only when there is no handle
EffResetWithoutUsername(w, r) ==
  IF currentUsername(r.profile) = NoUsername
  THEN [w EXCEPT !.s.mentionCounts = EmptyMap]
  ELSE w

\* 530-535
EffResetOnUsername(w, r) ==
  IF currentUsername(r.profile) = NoUsername THEN w
  ELSE [w EXCEPT !.s.mentionCounts = EmptyMap]

(***************************************************************************)
(* One flush of the passive effects of render r = w.s: the cleanups of     *)
(* the effects whose dependencies changed, then their bodies.  The         *)
(* dependencies are compared by value: channels and profile are compared   *)
(* by identity in React, and a re-run of their effects with equal values   *)
(* repeats assignments and a reset of an already empty map.                *)
(***************************************************************************)
Flush(w) ==
  LET RunIf(changed, Effect(_, _), v, q) == IF changed THEN Effect(v, q) ELSE v
      CleanupIf(changed, Cleanup(_), v) == IF changed THEN Cleanup(v) ELSE v
      r == w.s
      first == ~w.fx.ran
      d == w.fx.d
      chProfile == first \/ d.profile # r.profile
      chSelChan == first \/ d.selectedChannelId # r.selectedChannelId
      chAuth == first \/ d.authUser # r.authUser
      chOrg == first \/ d.selectedOrganizationId # r.selectedOrganizationId
      chChannels == first \/ d.channels # r.channels
      chUsername == first \/ currentUsername(d.profile) # currentUsername(r.profile)
      k1 == CleanupIf(chAuth, CleanupLoadProfile, w)
      k2 == CleanupIf(chAuth, CleanupLoadOrganizations, k1)
      k3 == CleanupIf(chOrg \/ chAuth, CleanupChannels, k2)
      k4 == CleanupIf(chSelChan, CleanupMessages, k3)
      e1 == RunIf(chProfile, EffProfileRef, k4, r)
      e2 == RunIf(chSelChan, EffSelectedChannel, e1, r)
      e3 == RunIf(chAuth, EffLoadProfile, e2, r)
      e4 == RunIf(chAuth, EffLastUser, e3, r)
      e5 == RunIf(chAuth, EffLoadOrganizations, e4, r)
      e6 == RunIf(chAuth \/ chOrg, EffPersistOrganization, e5, r)
      e7 == RunIf(chAuth \/ chOrg \/ chSelChan, EffPersistChannel, e6, r)
      e8 == RunIf(chOrg \/ chAuth, EffChannels, e7, r)
      e9 == RunIf(chSelChan, EffMessages, e8, r)
      e10 == RunIf(chProfile, EffUsernameRefs, e9, r)
      e11 == RunIf(chChannels \/ chProfile, EffMentionListeners, e10, r)
      e12 == RunIf(chOrg, EffResetOnOrganization, e11, r)
      e13 == RunIf(chUsername, EffResetOnUsername, e12, r)
  IN [e13 EXCEPT !.fx.ran = TRUE, !.fx.d = Deps(r)]

EffectsPending(w) == ~w.fx.ran \/ w.fx.d # Deps(w.s)

\* the cleanups of the unmount, 162, 192-194, 261-263, 321, 338 and 519-524
Teardown(w) ==
  LET k == CleanupMessages(CleanupChannels(
             CleanupLoadOrganizations(CleanupLoadProfile(w))))
  IN [k EXCEPT !.subs = Unsubscribe(@, MapValues(k.refs.mentionListeners)),
               !.refs.mentionListeners = EmptyMap]

(***************************************************************************)
(* Callbacks and handlers.                                                 *)
(***************************************************************************)
\* an updater that prefers the stored id to the current one
RestoreStoredOrganization(current, collection, storedOrganizationId) ==
  IF storedOrganizationId # Null /\ Includes(collection, storedOrganizationId)
  THEN storedOrganizationId
  ELSE IF current # Null /\ Includes(collection, current) THEN current
       ELSE IF Len(collection) > 0 THEN collection[1] ELSE Null

\* the updater of setSelectedOrganizationId in loadOrganizations, 237-245
RestoreOrganization(current, collection, storedOrganizationId) ==
  IF current # Null /\ Includes(collection, current) THEN current
  ELSE IF storedOrganizationId # Null /\ Includes(collection, storedOrganizationId)
       THEN storedOrganizationId
       ELSE IF Len(collection) > 0 THEN collection[1] ELSE Null

\* a continuation that never asks for the picker
LoadOrganizationsDoneNoPicker(w, userId, collection) ==
  [w EXCEPT
     !.s.organizations = collection,
     !.s.selectedOrganizationId =
        RestoreOrganization(@, collection, readStoredOrganizationId(w.store, userId)),
     !.s.showOrganizationPicker = FALSE,
     !.loads.org = Null]

\* the picker is part of the render, 721
OrganizationPickerRendered(r) == r.showOrganizationPicker /\ Len(r.organizations) > 1

\* loadOrganizations after the await, 229-250
LoadOrganizationsDone(w, userId, collection) ==
  LET storedOrganizationId == readStoredOrganizationId(w.store, userId)
      storedOrganizationIsValid ==
        storedOrganizationId # Null /\ Includes(collection, storedOrganizationId)
  IN [w EXCEPT
        !.s.organizations = collection,
        !.s.selectedOrganizationId =
           RestoreOrganization(@, collection, storedOrganizationId),
        !.s.showOrganizationPicker =
           (Len(collection) > 1 /\ ~storedOrganizationIsValid),
        !.loads.org = Null]

\* an updater that keeps a selected channel that left the list
RestoreChannelKeepsCurrent(current, collection, userId, storedChannelId) ==
  IF current # Null THEN current
  ELSE IF userId # Null /\ storedChannelId # Null
          /\ Includes(collection, storedChannelId)
       THEN storedChannelId
       ELSE IF Len(collection) > 0 THEN collection[1] ELSE Null

\* the updater of setSelectedChannelId in the channel callback, 296-307
RestoreChannel(current, collection, userId, storedChannelId) ==
  IF current # Null /\ Includes(collection, current) THEN current
  ELSE IF userId # Null /\ storedChannelId # Null
          /\ Includes(collection, storedChannelId)
       THEN storedChannelId
       ELSE IF Len(collection) > 0 THEN collection[1] ELSE Null

\* the onUpdate callback of listenToChannels, 293-311
OnChannelsUpdate(w, id, collection) ==
  LET userId == w.subs[id].user
      organizationId == w.subs[id].target
  IN [w EXCEPT
        !.s.channels = collection,
        !.s = SetIfPresent(@, "channelsLoading", FALSE),
        !.s.selectedChannelId =
           RestoreChannel(@, collection, userId,
                          IF userId = Null THEN Null
                          ELSE readStoredChannelId(w.store, userId, organizationId)),
        !.store = IF userId # Null /\ Len(collection) = 0
                  THEN persistChannelId(@, userId, organizationId, Null)
                  ELSE @]

\* what the error handler of onSnapshot is called with: an Error with its
\* message, or another value
ListenerErrors ==
  {[isError |-> TRUE, message |-> "permission-denied"],
   [isError |-> TRUE, message |-> "unavailable"],
   [isError |-> FALSE, message |-> Null]}

OnChannelsErrorKeepsLoading(w, listenerError) ==
  [w EXCEPT !.s.channels = <<>>,
            !.s = SetIfPresent(@, "error",
                    IF listenerError.isError THEN listenerError.message
                    ELSE "Unable to load channels right now.")]

\* the onError callback of listenToChannels, 312-318
OnChannelsError(w, listenerError) ==
  [w EXCEPT !.s.channels = <<>>,
            !.s = SetIfPresent(@, "channelsLoading", FALSE),
            !.s = SetIfPresent(@, "error",
                    IF listenerError.isError THEN listenerError.message
                    ELSE "Unable to load channels right now.")]

\* the error handler listenToChannels gives to onSnapshot (chatService.ts
\* 146-152), for a caller with and without an onError callback; the listener
\* gets no snapshot after an error
ChannelListenerError(w, id, hasOnError, listenerError) ==
  IF hasOnError
  THEN OnChannelsError([w EXCEPT !.subs[id].failed = TRUE], listenerError)
  ELSE [w EXCEPT !.subs[id].failed = TRUE, !.subs[id].logged = TRUE]

\* the callback of listenToMessages, 333-336
OnMessagesUpdate(w, id, empty) ==
  [w EXCEPT !.s.messages = IF empty THEN Null ELSE w.subs[id].target]

\* handleSignOut after the await, 583-589
SignOutDone(w, capturedUserId) ==
  [w EXCEPT
     !.store = IF capturedUserId # Null
               THEN clearStoredSelectionsForUser(@, capturedUserId) ELSE @,
     !.s.selectedOrganizationId = Null,
     !.s.organizations = <<>>,
     !.s.channels = <<>>,
     !.s.messages = Null]

\* handleSelectOrganization, 596-599
HandleSelectOrganization(w, organizationId) ==
  [w EXCEPT !.s.selectedOrganizationId = organizationId,
            !.s.showOrganizationPicker = FALSE]

(***************************************************************************)
(* Actions.  A callback of the backend or a continuation of an await sets  *)
(* state and leaves the effects of the next render pending (FlushEffects). *)
(* A click is a discrete event: the pending effects run before its         *)
(* handler, and the effects of its render run before the next event.       *)
(***************************************************************************)
Live(id, kind) ==
  /\ id \in DOMAIN subs
  /\ subs[id].kind = kind
  /\ subs[id].open
  /\ ~subs[id].failed

\* the deferred passive effects of the last render
FlushEffects ==
  /\ env.mounted
  /\ EffectsPending(World)
  /\ Commit(Flush(World))
  /\ UNCHANGED env

\* the callback of onAuthStateChanged, 157-160
AuthStateChanged(user) ==
  /\ env.mounted
  /\ fx.ran
  /\ env.authChanges < MaxAuthChanges
  /\ user # s.authUser
  /\ user = Null \/ s.authUser = Null
  /\ Commit([World EXCEPT !.s.authUser = user])
  /\ env' = [env EXCEPT !.authChanges = @ + 1]

\* loadProfile after the await, 180-182 (not cancelled)
LoadProfileDone(displayName) ==
  /\ env.mounted
  /\ loads.profile # Null
  /\ Commit([World EXCEPT !.s.profile = Profile(loads.profile, displayName),
                          !.loads.profile = Null])
  /\ UNCHANGED env

\* loadProfile after the await: cancelled, or ensureUserProfile threw
LoadProfileDropped ==
  /\ env.mounted
  /\ \/ /\ loads.profile # Null
        /\ Commit([World EXCEPT !.loads.profile = Null])
     \/ \E u \in loads.profileCancelled :
          Commit([World EXCEPT !.loads.profileCancelled = @ \ {u}])
  /\ UNCHANGED env

LoadOrgsDone(members) ==
  /\ env.mounted
  /\ loads.org # Null
  /\ Commit(LoadOrganizationsDone(World, loads.org, fetchOrganizationsForUser(members)))
  /\ UNCHANGED env

\* loadOrganizations after the await: cancelled (229-231), or the fetch threw
LoadOrgsDropped ==
  /\ env.mounted
  /\ \/ /\ loads.org # Null
        /\ Commit([World EXCEPT !.loads.org = Null])
     \/ \E u \in loads.orgCancelled :
          Commit([World EXCEPT !.loads.orgCancelled = @ \ {u}])
  /\ UNCHANGED env

ChannelsSnapshotEvent(id, docs) ==
  /\ env.mounted
  /\ Live(id, "channels")
  /\ docs \subseteq ChannelsOf(env.channelOrg, subs[id].target)
  /\ Commit(OnChannelsUpdate(World, id, ChannelSnapshot(docs)))
  /\ UNCHANGED env

ChannelsErrorEvent(id) ==
  /\ env.mounted
  /\ Live(id, "channels")
  /\ \E listenerError \in ListenerErrors :
       Commit(ChannelListenerError(World, id, TRUE, listenerError))
  /\ UNCHANGED env

MessagesSnapshotEvent(id, empty) ==
  /\ env.mounted
  /\ Live(id, "messages")
  /\ Commit(OnMessagesUpdate(World, id, empty))
  /\ UNCHANGED env

\* the first snapshot of a watcher: the messages that exist already
WatcherFirstSnapshot(id, existing) ==
  /\ env.mounted
  /\ Live(id, "mentions")
  /\ ~subs[id].initialized
  /\ Commit(WatcherSnapshot(World, id, existing))
  /\ UNCHANGED env

\* a later snapshot of a watcher: one message was added
WatcherNewMessage(id, message) ==
  /\ env.mounted
  /\ Live(id, "mentions")
  /\ subs[id].initialized
  /\ CountOf(s.mentionCounts, subs[id].target) < MaxCount
  /\ Commit(WatcherSnapshot(World, id, <<message>>))
  /\ UNCHANGED env

\* a click on a channel of the sidebar: onSelectChannel = setSelectedChannelId
SelectChannel(channelId) ==
  /\ env.mounted
  /\ fx.ran
  /\ Includes(s.channels, channelId)
  /\ Commit(Flush([Flush(World) EXCEPT !.s.selectedChannelId = channelId]))
  /\ UNCHANGED env

\* a click in the organization picker, rendered at 721-732
SelectOrganization(organizationId) ==
  /\ env.mounted
  /\ fx.ran
  /\ s.showOrganizationPicker
  /\ Len(s.organizations) > 1
  /\ Includes(s.organizations, organizationId)
  /\ Commit(Flush(HandleSelectOrganization(Flush(World), organizationId)))
  /\ UNCHANGED env

\* onSwitchOrganization, 660
OpenOrganizationPicker ==
  /\ env.mounted
  /\ fx.ran
  /\ Len(s.organizations) > 1
  /\ ~s.showOrganizationPicker
  /\ Commit(Flush([Flush(World) EXCEPT !.s.showOrganizationPicker = TRUE]))
  /\ UNCHANGED env

\* handleProfileUpdate, 649-651, called by the profile form after its await
ProfileUpdated(displayName) ==
  /\ env.mounted
  /\ s.profile # NoProfile
  /\ displayName \in TypedNames(s.profile.id)
  /\ displayName # s.profile.displayName
  /\ Commit([World EXCEPT !.s.profile.displayName = displayName])
  /\ UNCHANGED env

\* handleSignOut up to the await, 579-582: activeUserId is captured
SignOutClick ==
  /\ env.mounted
  /\ fx.ran
  /\ env.signOut = "idle"
  /\ env' = [env EXCEPT !.signOut = activeUserId(s)]
  /\ UNCHANGED <<s, refs, store, subs, fx, loads>>

\* handleSignOut after the await: signOut resolved
SignOutResolved ==
  /\ env.mounted
  /\ env.signOut # "idle"
  /\ Commit(SignOutDone(World, env.signOut))
  /\ env' = [env EXCEPT !.signOut = "idle"]

\* handleSignOut after the await: signOut rejected, 590-593
SignOutRejected ==
  /\ env.mounted
  /\ env.signOut # "idle"
  /\ env' = [env EXCEPT !.signOut = "idle"]
  /\ UNCHANGED <<s, refs, store, subs, fx, loads>>

\* handleCreateOrganization after the await, 607-611
CreateOrganizationDone(w, organizationId) ==
  LET all == Range(w.s.organizations) \cup {organizationId}
  IN [w EXCEPT
        !.s.organizations = SortBy(all, [o \in all |-> <<OrgNameRank(o), OrgNameRank(o)>>]),
        !.s.selectedOrganizationId = organizationId,
        !.s.showOrganizationPicker = FALSE]

CreateOrganization(organizationId) ==
  /\ env.mounted
  /\ fx.ran
  /\ s.profile # NoProfile
  /\ ~Includes(s.organizations, organizationId)
  /\ Commit(CreateOrganizationDone(World, organizationId))
  /\ UNCHANGED env

\* the component is removed: every cleanup runs and its state is gone
Unmount ==
  /\ env.mounted
  /\ fx.ran
  /\ Commit([Teardown(World) EXCEPT
               !.s = InitialState,
               !.refs = InitialRefs,
               !.fx = [ran |-> FALSE, d |-> Deps(InitialState),
                       chanSub |-> NoSub, msgSub |-> NoSub],
               !.loads = [profile |-> Null, profileCancelled |-> {},
                          org |-> Null, orgCancelled |-> {}]])
  /\ env' = [env EXCEPT !.mounted = FALSE, !.signOut = "idle"]

(***************************************************************************)
(* The specification.  Backend callbacks of the watchers may run between a *)
(* render and its effects; the other events are taken when no effect is    *)
(* pending.  ensureUserProfile returns the display name the account was    *)
(* registered with; the profile form changes it.                           *)
(***************************************************************************)
Settled == ~EffectsPending(World)

RegisteredNames == {Ada}

Next ==
  \/ FlushEffects
  \/ Settled /\ \E u \in Users \cup {Null} : AuthStateChanged(u)
  \/ Settled /\ \E dn \in RegisteredNames : LoadProfileDone(dn)
  \/ Settled /\ LoadProfileDropped
  \/ Settled /\ \E members \in SUBSET Orgs : LoadOrgsDone(members)
  \/ Settled /\ LoadOrgsDropped
  \/ Settled /\ \E id \in DOMAIN subs : \E docs \in SUBSET Channels :
       ChannelsSnapshotEvent(id, docs)
  \/ Settled /\ \E id \in DOMAIN subs : ChannelsErrorEvent(id)
  \/ \E id \in DOMAIN subs : \E existing \in Existing :
       WatcherFirstSnapshot(id, existing)
  \/ \E id \in DOMAIN subs : \E m \in Messages : WatcherNewMessage(id, m)
  \/ \E c \in Channels : SelectChannel(c)
  \/ \E o \in Orgs : SelectOrganization(o)
  \/ OpenOrganizationPicker
  \/ Settled /\ \E dn \in DisplayNames : ProfileUpdated(dn)
  \/ Unmount

Spec == Init /\ [][Next]_vars

(***************************************************************************)
(* One user in an organization that holds the three channels: the sidebar  *)
(* with two channels that are not the selected one.                        *)
(***************************************************************************)
InitOneOrg == Start(OneOrg, {EmptyMap})

NextOneOrg ==
  \/ FlushEffects
  \/ Settled /\ AuthStateChanged("u1")
  \/ Settled /\ LoadProfileDone(Ada)
  \/ Settled /\ LoadOrgsDone({"o1"})
  \/ Settled /\ \E id \in DOMAIN subs : \E docs \in SUBSET Channels :
       ChannelsSnapshotEvent(id, docs)
  \/ \E id \in DOMAIN subs : \E existing \in Existing :
       WatcherFirstSnapshot(id, existing)
  \/ \E id \in DOMAIN subs : \E m \in Messages : WatcherNewMessage(id, m)
  \/ \E c \in Channels : SelectChannel(c)

SpecOneOrg == InitOneOrg /\ [][NextOneOrg]_vars

(***************************************************************************)
(* The session of user u1: sign-in, the sign-out button, organizations and  *)
(* channels that come and go, the message list, the unmount.  The mention  *)
(* counts play no part in the subscriptions and no message arrives.        *)
(***************************************************************************)
NextSession ==
  \/ FlushEffects
  \/ Settled /\ \E u \in {"u1", Null} : AuthStateChanged(u)
  \/ Settled /\ \E dn \in RegisteredNames : LoadProfileDone(dn)
  \/ Settled /\ LoadProfileDropped
  \/ Settled /\ \E members \in SUBSET Orgs : LoadOrgsDone(members)
  \/ Settled /\ LoadOrgsDropped
  \/ Settled /\ \E id \in DOMAIN subs : \E docs \in SUBSET Channels :
       ChannelsSnapshotEvent(id, docs)
  \/ Settled /\ \E id \in DOMAIN subs : ChannelsErrorEvent(id)
  \/ Settled /\ \E id \in DOMAIN subs : \E empty \in BOOLEAN :
       MessagesSnapshotEvent(id, empty)
  \/ \E id \in DOMAIN subs : WatcherFirstSnapshot(id, <<>>)
  \/ \E c \in Channels : SelectChannel(c)
  \/ \E o \in Orgs : SelectOrganization(o)
  \/ OpenOrganizationPicker
  \/ Settled /\ \E dn \in DisplayNames : ProfileUpdated(dn)
  \/ Settled /\ SignOutClick
  \/ Settled /\ SignOutResolved
  \/ Settled /\ SignOutRejected
  \/ Unmount

SpecSession == Init /\ [][NextSession]_vars

(***************************************************************************)
(* The organizations of user u1: sign-in with or without a stored          *)
(* selection, organizations created and picked while the list loads, the   *)
(* sign-out button.  The list may arrive before the effects of the last    *)
(* render have run.                                                        *)
(***************************************************************************)
InitOrgs == Start(ChannelOrg, InitialStores \cup {EmptyMap})

NextOrgs ==
  \/ FlushEffects
  \/ Settled /\ \E u \in {"u1", Null} : AuthStateChanged(u)
  \/ Settled /\ LoadProfileDone(Ada)
  \/ \E members \in SUBSET Orgs : LoadOrgsDone(members)
  \/ Settled /\ LoadOrgsDropped
  \/ \E o \in Orgs : CreateOrganization(o)
  \/ \E o \in Orgs : SelectOrganization(o)
  \/ OpenOrganizationPicker
  \/ Settled /\ SignOutClick
  \/ Settled /\ SignOutResolved
  \/ Settled /\ SignOutRejected

SpecOrgs == InitOrgs /\ [][NextOrgs]_vars

(***************************************************************************)
(* The session of user u1 on a shared device: localStorage holds the       *)
(* selections of an earlier session of u1 and those of another user, u2.   *)
(***************************************************************************)
SharedDeviceStore ==
  (organizationStorageKey("u1") :> "o1") @@ (channelStorageKey("u1", "o1") :> "c1")
    @@ (organizationStorageKey("u2") :> "o2") @@ (channelStorageKey("u2", "o2") :> "c3")
    @@ (channelStorageKey("u2", "o1") :> "c2")

InitSharedDevice == Start(ChannelOrg, {SharedDeviceStore})

SpecSharedDevice == InitSharedDevice /\ [][NextSession]_vars

(***************************************************************************)
(* The storage helpers on their own: any user persists any organization    *)
(* and channel, or null, and clears the stored selections, in any order.   *)
(***************************************************************************)
InitStorage == Start(ChannelOrg, {EmptyMap})

PersistOrganization(userId, organizationId) ==
  /\ store' = persistOrganizationId(store, userId, organizationId)
  /\ UNCHANGED <<s, refs, subs, fx, loads, env>>

PersistChannel(userId, organizationId, channelId) ==
  /\ store' = persistChannelId(store, userId, organizationId, channelId)
  /\ UNCHANGED <<s, refs, subs, fx, loads, env>>

ClearStoredSelections(userId) ==
  /\ store' = clearStoredSelectionsForUser(store, userId)
  /\ UNCHANGED <<s, refs, subs, fx, loads, env>>

NextStorage ==
  \/ \E u \in Users : \E o \in Orgs \cup {Null} : PersistOrganization(u, o)
  \/ \E u \in Users : \E o \in Orgs \cup {Null} : \E c \in Channels \cup {Null} :
       PersistChannel(u, o, c)
  \/ \E u \in Users : ClearStoredSelections(u)

SpecStorage == InitStorage /\ [][NextStorage]_vars

(***************************************************************************)
(* The order of a channel snapshot on its own.  Six channel documents:     *)
(* two without createdAt, two created at time 1 and two at time 2; the     *)
(* query returns any of them in any document order.                        *)
(***************************************************************************)
ChannelDocs == {"alpha", "beta", "delta", "eta", "gamma", "zeta"}
DocHasCreatedAt(d) == d \notin {"eta", "zeta"}
DocCreatedAt(d) == IF d \in {"alpha", "delta"} THEN 2 ELSE 1
\* the position of the channel's name in localeCompare order
DocNameRank(d) ==
  CASE d = "alpha" -> 1 [] d = "beta" -> 2 [] d = "delta" -> 3
    [] d = "eta" -> 4 [] d = "gamma" -> 5 [] d = "zeta" -> 6

RECURSIVE SnapshotDocs(_)
SnapshotDocs(S) ==
  {<<>>} \cup UNION {{<<d>> \o rest : rest \in SnapshotDocs(S \ {d})} : d \in S}

PositionIn(docs, d) == CHOOSE i \in 1..Len(docs) : docs[i] = d

\* docs.map(mapChannel).sort((a, b) => aTime - bTime), chatService.ts 137-144
SortedChannels(docs) ==
  SortBy(Range(docs),
         [d \in Range(docs) |->
            <<IF DocHasCreatedAt(d) THEN DocCreatedAt(d) ELSE 0, PositionIn(docs, d)>>])

InitChannelOrder == Start(ChannelOrg, {EmptyMap})

\* the snapshot callback of listenToChannels: the list handed to onUpdate
ChannelDocsDelivered(docs) ==
  /\ s' = [s EXCEPT !.channels = SortedChannels(docs)]
  /\ UNCHANGED <<refs, store, subs, fx, loads, env>>

NextChannelOrder == \E docs \in SnapshotDocs(ChannelDocs) : ChannelDocsDelivered(docs)

SpecChannelOrder == InitChannelOrder /\ [][NextChannelOrder]_vars

(***************************************************************************)
(* The sanitizer (chatService.ts 222-382).  The value of a message is      *)
(* modelled by the tree container.innerHTML = value builds: a list of      *)
(* nodes, each a text node (a sequence of characters, nbsp for the entity  *)
(* &nbsp; and zwsp for U+200B), a comment, or an element with a tag, its   *)
(* attributes (a function from names to values) and its child nodes.  The  *)
(* string sanitizeMessageHtml returns is modelled by the tree it parses    *)
(* to.                                                                     *)
(***************************************************************************)
TextNode(chars) == [kind |-> "text", chars |-> chars]
CommentNode == [kind |-> "comment"]
Element(tag, attrs, kids) ==
  [kind |-> "element", tag |-> tag, attrs |-> attrs, kids |-> kids]

allowedTags ==
  {"b", "strong", "i", "em", "u", "p", "br", "ul", "ol", "li", "blockquote",
   "code", "pre", "div"}

allowedAttributes(tagName) == IF tagName = "a" THEN {"href"} ELSE {}

\* /^(https?:|mailto:)/i on the trimmed value; a value is its scheme and
\* the rest
isSafeHref(value) ==
  /\ value # <<>>
  /\ Trim(value) # <<>>
  /\ Head(Trim(value)) \in {"http:", "https:", "mailto:", "HTTPS:"}

\* 255-274: the attributes that stay, and rel and target beside a safe href
sanitizeAttributes(tagName, attributes) ==
  LET attrs == allowedAttributes(tagName)
      kept == {n \in DOMAIN attributes :
                 n \in attrs /\ (n = "href" => isSafeHref(attributes[n]))}
      names == kept \cup (IF "href" \in kept THEN {"rel", "target"} ELSE {})
  IN [n \in names |->
        IF n = "rel" THEN "noreferrer noopener"
        ELSE IF n = "target" THEN "_blank" ELSE attributes[n]]

\* 298-309: the wrappers the style of a span asks for
StyleWrappers(element) ==
  IF "style" \notin DOMAIN element.attrs THEN <<>>
  ELSE IF element.attrs["style"] = "font-weight: bold" THEN <<"strong">>
  ELSE IF element.attrs["style"] = "font-weight: bold; font-style: italic"
       THEN <<"strong", "em">>
       ELSE <<>>

\* 315-328: the wrappers nested, the children of the span in the innermost
RECURSIVE WrapIn(_, _)
WrapIn(wrappers, kids) ==
  IF Len(wrappers) = 1 THEN Element(Head(wrappers), <<>>, kids)
  ELSE Element(Head(wrappers), <<>>, <<WrapIn(Tail(wrappers), kids)>>)

\* 331-363: the child nodes of root after the pass over the child nodes it
\* had when the pass began.  The children of an unwrapped element take its
\* place and are not among those nodes.
RECURSIVE sanitizeTree(_)
sanitizeTree(childNodes) ==
  IF childNodes = <<>> THEN <<>>
  ELSE LET node == Head(childNodes)
           rest == sanitizeTree(Tail(childNodes))
       IN IF node.kind = "text" THEN <<node>> \o rest
          ELSE IF node.kind # "element" THEN rest
          ELSE IF node.tag = "span"
               THEN IF StyleWrappers(node) # <<>>
                    THEN <<WrapIn(StyleWrappers(node), sanitizeTree(node.kids))>> \o rest
                    ELSE node.kids \o rest
               ELSE IF node.tag \notin allowedTags
                    THEN node.kids \o rest
                    ELSE <<Element(node.tag, sanitizeAttributes(node.tag, node.attrs),
                                   sanitizeTree(node.kids))>> \o rest

\* innerHTML and its parse: adjacent text nodes are one text node
RECURSIVE MergeText(_)
MergeText(nodes) ==
  IF nodes = <<>> THEN <<>>
  ELSE LET node == Head(nodes)
           rest == MergeText(Tail(nodes))
       IN IF node.kind = "element"
          THEN <<Element(node.tag, node.attrs, MergeText(node.kids))>> \o rest
          ELSE IF node.kind = "text" /\ rest # <<>> /\ Head(rest).kind = "text"
               THEN <<TextNode(node.chars \o Head(rest).chars)>> \o Tail(rest)
               ELSE <<node>> \o rest

\* .replace(/\u200B/g, '')
RECURSIVE RemoveZeroWidth(_)
RemoveZeroWidth(chars) ==
  IF chars = <<>> THEN <<>>
  ELSE IF Head(chars) = "zwsp" THEN RemoveZeroWidth(Tail(chars))
       ELSE <<Head(chars)>> \o RemoveZeroWidth(Tail(chars))

\* .replace(/(&nbsp;)+/g, ' ')
RECURSIVE CollapseNbsp(_)
CollapseNbsp(chars) ==
  IF chars = <<>> THEN <<>>
  ELSE IF Head(chars) # "nbsp" THEN <<Head(chars)>> \o CollapseNbsp(Tail(chars))
       ELSE IF Len(chars) > 1 /\ chars[2] = "nbsp" THEN CollapseNbsp(Tail(chars))
            ELSE <<" ">> \o CollapseNbsp(Tail(chars))

RECURSIVE CleanText(_)
CleanText(nodes) ==
  IF nodes = <<>> THEN <<>>
  ELSE LET node == Head(nodes)
       IN (IF node.kind = "element"
           THEN <<Element(node.tag, node.attrs, CleanText(node.kids))>>
           ELSE IF node.kind = "text"
                THEN <<TextNode(CollapseNbsp(RemoveZeroWidth(node.chars)))>>
                ELSE <<node>>)
          \o CleanText(Tail(nodes))

\* .trim(): the white space at the two ends of the string
TrimEnds(nodes) ==
  LET a == IF nodes # <<>> /\ Head(nodes).kind = "text"
           THEN <<TextNode(TrimStart(Head(nodes).chars))>> \o Tail(nodes)
           ELSE nodes
      b == IF a # <<>> /\ a[Len(a)].kind = "text"
           THEN SubSeq(a, 1, Len(a) - 1) \o <<TextNode(TrimEnd(a[Len(a)].chars))>>
           ELSE a
  IN SelectSeq(b, LAMBDA n : n.kind # "text" \/ n.chars # <<>>)

\* 365-382
sanitizeMessageHtml(value) ==
  IF value = <<>> THEN <<>>
  ELSE TrimEnds(CleanText(MergeText(sanitizeTree(value))))

\* what the parser can build: the content of a script or an iframe is raw
\* text, and a hyperlink holds no hyperlink
RECURSIVE Parsed(_, _)
Parsed(nodes, inLink) ==
  \A i \in 1..Len(nodes) :
    nodes[i].kind = "element" =>
      /\ nodes[i].tag \in {"script", "iframe"} =>
            \A k \in 1..Len(nodes[i].kids) : nodes[i].kids[k].kind = "text"
      /\ ~(inLink /\ nodes[i].tag = "a")
      /\ Parsed(nodes[i].kids, inLink \/ nodes[i].tag = "a")
\* the values of the model: an element chain of up to three levels around
\* nothing, a text or a comment
InputValues ==
  LET tags == {"b", "a", "span", "script", "iframe"}
      attributes ==
        { <<>>,
          [n \in {"onclick"} |-> "x()"],
          [n \in {"style"} |-> "font-weight: bold"],
          [n \in {"href"} |-> <<"https:", "x">>],
          [n \in {"href"} |-> <<"javascript:", "x">>] }
      leaves ==
        { <<>>, <<TextNode(<<"t">>)>>,
          <<TextNode(<<"nbsp", "zwsp", "nbsp", "t">>)>>, <<CommentNode>> }
      Around(values) ==
        {<<Element(tag, attrs, kids)>> :
           tag \in tags, attrs \in attributes, kids \in values}
  IN {value \in Around(leaves) \cup Around(Around(leaves))
                  \cup Around(Around(Around(leaves))) :
        Parsed(value, FALSE)}

\* a message as the list shows it: its text, and the html of
\* sanitizeMessageHtml(message.text) once it is rendered
InitSanitizer ==
  /\ \E value \in InputValues :
       s = [InitialState EXCEPT
              !.messages = <<[text |-> value, rendered |-> FALSE, html |-> <<>>]>>]
  /\ refs = InitialRefs
  /\ store = EmptyMap
  /\ subs = EmptyMap
  /\ fx = [ran |-> FALSE, d |-> Deps(InitialState), chanSub |-> NoSub, msgSub |-> NoSub]
  /\ loads = [profile |-> Null, profileCancelled |-> {}, org |-> Null, orgCancelled |-> {}]
  /\ env = [mounted |-> TRUE, signOut |-> "idle", authChanges |-> 0,
            channelOrg |-> ChannelOrg]

RenderMessage ==
  /\ ~s.messages[1].rendered
  /\ s' = [s EXCEPT !.messages[1].rendered = TRUE,
                    !.messages[1].html = sanitizeMessageHtml(s.messages[1].text)]
  /\ UNCHANGED <<refs, store, subs, fx, loads, env>>

NextSanitizer == RenderMessage

SpecSanitizer == InitSanitizer /\ [][NextSanitizer]_vars

(***************************************************************************)
(* The channel listener of user u1 with the loading flag and the error     *)
(* message of App: sign-in, the organizations, snapshots and errors of the *)
(* channel subscriptions, and the selection of another organization.       *)
(***************************************************************************)
InitChannelListener ==
  /\ s = [channelsLoading |-> FALSE, error |-> Null] @@ InitialState
  /\ refs = InitialRefs
  /\ store = EmptyMap
  /\ subs = EmptyMap
  /\ fx = [ran |-> FALSE, d |-> Deps(InitialState), chanSub |-> NoSub, msgSub |-> NoSub]
  /\ loads = [profile |-> Null, profileCancelled |-> {}, org |-> Null, orgCancelled |-> {}]
  /\ env = [mounted |-> TRUE, signOut |-> "idle", authChanges |-> 0,
            channelOrg |-> ChannelOrg]

NextChannelListener ==
  \/ FlushEffects
  \/ Settled /\ AuthStateChanged("u1")
  \/ Settled /\ LoadProfileDone(Ada)
  \/ Settled /\ \E members \in SUBSET Orgs : LoadOrgsDone(members)
  \/ Settled /\ \E id \in DOMAIN subs, docs \in SUBSET Channels :
                  ChannelsSnapshotEvent(id, docs)
  \/ Settled /\ \E id \in DOMAIN subs : ChannelsErrorEvent(id)
  \/ \E o \in Orgs : SelectOrganization(o)

SpecChannelListener == InitChannelListener /\ [][NextChannelListener]_vars

(***************************************************************************)
(* The attachments of a message document (chatService.ts 68-123).  A value *)
(* of the document is null, a string, a number, an object (a function from *)
(* field names to values) or an array.                                     *)
(***************************************************************************)
Undefined == [t |-> "undefined"]
JsNull == [t |-> "null"]
JsString(v) == [t |-> "string", v |-> v]
JsNumber(n) == [t |-> "number", n |-> n]
JsObject(f) == [t |-> "object", f |-> f]
JsArray(items) == [t |-> "array", items |-> items]

\* data.name for a field of an object: undefined when the field is absent
Field(data, name) == IF name \in DOMAIN data.f THEN data.f[name] ELSE Undefined

mapAttachmentIdFromUrl(value) ==
  IF value.t # "object" THEN JsNull
  ELSE IF Field(value, "url").t # "string" \/ Field(value, "name").t # "string"
       THEN JsNull
       ELSE [id |-> IF Field(value, "id").t = "string" THEN Field(value, "id").v
                    ELSE Field(value, "url").v,
             name |-> Field(value, "name").v,
             size |-> IF Field(value, "size").t = "number"
                      THEN Field(value, "size").n ELSE 0,
             url |-> Field(value, "url").v,
             storagePath |-> IF Field(value, "storagePath").t = "string"
                             THEN Field(value, "storagePath").v ELSE Null]

\* 95-123; typeof an array is 'object', and an array has none of the fields
mapAttachment(value) ==
  IF value.t \notin {"object", "array"} THEN JsNull
  ELSE LET data == IF value.t = "array" THEN JsObject(<<>>) ELSE value
           fallbackId ==
             IF Field(data, "storagePath").t = "string"
                /\ Field(data, "storagePath").v # ""
             THEN Field(data, "storagePath").v
             ELSE IF Field(data, "url").t = "string" /\ Field(data, "url").v # ""
                  THEN Field(data, "url").v
                  ELSE ""
       IN IF Field(data, "url").t # "string" \/ Field(data, "name").t # "string"
          THEN JsNull
          ELSE [id |-> IF Field(data, "id").t = "string" THEN Field(data, "id").v
                       ELSE fallbackId,
                name |-> Field(data, "name").v,
                size |-> IF Field(data, "size").t = "number"
                         THEN Field(data, "size").n ELSE 0,
                url |-> Field(data, "url").v,
                storagePath |-> IF Field(data, "storagePath").t = "string"
                                THEN Field(data, "storagePath").v ELSE Null]

\* 85-93
mapAttachments(value) ==
  IF value.t # "array" THEN <<>>
  ELSE SelectSeq([i \in 1..Len(value.items) |-> mapAttachment(value.items[i])],
                 LAMBDA attachment : attachment # JsNull)

\* the values of the attachments field: no array, or an array of up to two
\* items; an item is no object, or an object whose url, name, id and
\* storagePath are absent, strings or numbers
AttachmentValues ==
  LET absent == {<<>>}
      Opt(name, values) == absent \cup {[n \in {name} |-> v] : v \in values}
      objects ==
        {JsObject(url @@ name @@ id @@ path) :
           url \in Opt("url", {JsString("u"), JsNumber(7)}),
           name \in Opt("name", {JsString("n"), JsNumber(7)}),
           id \in Opt("id", {JsString("i"), JsNumber(7)}),
           path \in Opt("storagePath", {JsString("p"), JsString(""), JsNumber(7)})}
      items == objects \cup {JsNull, JsString("u"), JsNumber(7), JsArray(<<>>)}
  IN {JsNull, JsString("u"), JsObject(<<>>)}
       \cup {JsArray(<<>>)} \cup {JsArray(<<a>>) : a \in items}
       \cup {JsArray(<<a, b>>) : a \in items, b \in items}

\* a message document before mapMessage maps it
InitAttachments ==
  /\ \E value \in AttachmentValues :
       s = [InitialState EXCEPT
              !.messages = <<[doc |-> value, mapped |-> FALSE, attachments |-> <<>>]>>]
  /\ refs = InitialRefs
  /\ store = EmptyMap
  /\ subs = EmptyMap
  /\ fx = [ran |-> FALSE, d |-> Deps(InitialState), chanSub |-> NoSub, msgSub |-> NoSub]
  /\ loads = [profile |-> Null, profileCancelled |-> {}, org |-> Null, orgCancelled |-> {}]
  /\ env = [mounted |-> TRUE, signOut |-> "idle", authChanges |-> 0,
            channelOrg |-> ChannelOrg]

\* 68-83: mapMessage
MessageMapped ==
  /\ ~s.messages[1].mapped
  /\ s' = [s EXCEPT !.messages[1].mapped = TRUE,
                    !.messages[1].attachments = mapAttachments(s.messages[1].doc)]
  /\ UNCHANGED <<refs, store, subs, fx, loads, env>>

NextAttachments == MessageMapped

SpecAttachments == InitAttachments /\ [][NextAttachments]_vars

(***************************************************************************)
(* A watcher callback fed with one message of another member (App.tsx      *)
(* 480-515), for a viewer whose handles come from the display name Ada or  *)
(* a blank one and from the e-mail addresses A.d@x, d@x or none.           *)
(***************************************************************************)
MentionViewers ==
  {[id |-> "u1", displayName |-> dn, email |-> email] :
     dn \in {Ada, Blank},
     email \in {<<>>, <<"A", ".", "d", "@", "x">>, <<"d", "@", "x">>}}

InitMentions ==
  /\ \E profile \in MentionViewers :
       /\ s = [InitialState EXCEPT !.authUser = "u1", !.profile = profile]
       /\ refs = [InitialRefs EXCEPT
                    !.lastUserId = "u1",
                    !.profile = profile,
                    !.currentUsername =
                       IF usernameCandidatesOf(profile) = <<>> THEN NoUsername
                       ELSE usernameCandidatesOf(profile)[1],
                    !.currentUsernameAliases =
                       IF Len(usernameCandidatesOf(profile)) > 1
                       THEN Tail(usernameCandidatesOf(profile)) ELSE <<>>]
  /\ store = EmptyMap
  /\ subs = EmptyMap
  /\ fx = [ran |-> TRUE, d |-> Deps(InitialState), chanSub |-> NoSub, msgSub |-> NoSub]
  /\ loads = [profile |-> Null, profileCancelled |-> {}, org |-> Null, orgCancelled |-> {}]
  /\ \E text \in MentionTexts :
       env = [mounted |-> TRUE, signOut |-> "idle", authChanges |-> 0,
              channelOrg |-> ChannelOrg,
              incoming |-> [author |-> Bob, text |-> text], delivered |-> FALSE]

MentionWatcherMessage ==
  /\ ~env.delivered
  /\ Commit(OnNewMessage(World, "c1", env.incoming))
  /\ env' = [env EXCEPT !.delivered = TRUE]

NextMentions == MentionWatcherMessage

SpecMentions == InitMentions /\ [][NextMentions]_vars

(***************************************************************************)
(* The scroll controller of MessageList (MessageList.tsx 36-115).  In the  *)
(* specification of the component s is its state, refs are its refs and    *)
(* env holds its props (channel is the id of the channel object, messages  *)
(* the authors of the messages), the calls of scrollToBottom the last      *)
(* render made (each is carried out in the next animation frame) and the   *)
(* change the last render answered, with the state it found.  Every render *)
(* is taken with its effects; an effect runs when one of its dependencies  *)
(* changed, and reads the state and props of its render (r).               *)
(***************************************************************************)
MaxMessages == 3

ViewerNames == {Ada, Blank}
MessageLists == UNION {[1..n -> Authors] : n \in 0..MaxMessages}

\* 42-53: nothing without the scroll container, which is rendered with a
\* channel
scrollToBottom(w, r, behavior) ==
  IF r.channel = Null THEN w ELSE [w EXCEPT !.env.issued = Append(@, behavior)]

EffFollowAlways(w, r) ==
  IF r.channel = Null
  THEN [w EXCEPT !.s.isAtBottom = TRUE,
                 !.refs.lastChannelId = Null,
                 !.refs.lastMessageCount = 0]
  ELSE IF r.channel # w.refs.lastChannelId
       THEN [scrollToBottom(w, r, "auto") EXCEPT
               !.refs.lastChannelId = r.channel,
               !.refs.lastMessageCount = Len(r.messages),
               !.s.isAtBottom = TRUE]
       ELSE scrollToBottom(w, r, IF Len(r.messages) > 0 THEN "smooth" ELSE "auto")

EffFollowKeepsState(w, r) ==
  IF r.channel = Null
  THEN [w EXCEPT !.s.isAtBottom = TRUE,
                 !.refs.lastChannelId = Null,
                 !.refs.lastMessageCount = 0]
  ELSE IF r.channel # w.refs.lastChannelId
       THEN [scrollToBottom(w, r, "auto") EXCEPT
               !.refs.lastChannelId = r.channel,
               !.refs.lastMessageCount = Len(r.messages)]
       ELSE IF r.isAtBottom
            THEN scrollToBottom(w, r, IF Len(r.messages) > 0 THEN "smooth" ELSE "auto")
            ELSE w

EffSelfPostNever(w, r) == [w EXCEPT !.refs.lastMessageCount = Len(r.messages)]

\* 64-71: the scroll listener; near is isNearBottom(node)
EffScrollListener(w, r, near) ==
  IF r.channel = Null THEN w ELSE [w EXCEPT !.s.isAtBottom = near]

\* 73-90
EffFollow(w, r) ==
  IF r.channel = Null
  THEN [w EXCEPT !.s.isAtBottom = TRUE,
                 !.refs.lastChannelId = Null,
                 !.refs.lastMessageCount = 0]
  ELSE IF r.channel # w.refs.lastChannelId
       THEN [scrollToBottom(w, r, "auto") EXCEPT
               !.refs.lastChannelId = r.channel,
               !.refs.lastMessageCount = Len(r.messages),
               !.s.isAtBottom = TRUE]
       ELSE IF r.isAtBottom
            THEN scrollToBottom(w, r, IF Len(r.messages) > 0 THEN "smooth" ELSE "auto")
            ELSE w

\* 92-115
EffSelfPost(w, r) ==
  IF r.channel = Null \/ r.currentUserName = <<>>
  THEN [w EXCEPT !.refs.lastMessageCount = Len(r.messages)]
  ELSE LET previousCount == w.refs.lastMessageCount
           w1 == [w EXCEPT !.refs.lastMessageCount = Len(r.messages)]
           selfPosted ==
             \E i \in (previousCount + 1)..Len(r.messages) :
               Normalized[r.messages[i]] = Normalized[r.currentUserName]
       IN IF Len(r.messages) <= previousCount \/ ~selfPosted THEN w1
          ELSE [scrollToBottom(w1, r, "smooth") EXCEPT !.s.isAtBottom = TRUE]

\* a render and its effects, and the render a changed isAtBottom asks for
RECURSIVE Render(_, _, _)
Render(w, near, run) ==
  LET r == [channel |-> w.env.channel, messages |-> w.env.messages,
            currentUserName |-> w.env.currentUserName,
            isAtBottom |-> w.s.isAtBottom]
      w1 == IF "listener" \in run THEN EffScrollListener(w, r, near) ELSE w
      w2 == IF "follow" \in run THEN EffFollow(w1, r) ELSE w1
      w3 == IF "selfPost" \in run THEN EffSelfPost(w2, r) ELSE w2
  IN IF w3.s.isAtBottom = r.isAtBottom THEN w3 ELSE Render(w3, near, {"follow"})

\* the component as the event finds it, with no call of scrollToBottom yet
Before(kind) ==
  [s |-> s, refs |-> refs,
   env |-> [env EXCEPT !.issued = <<>>,
                       !.event = [kind |-> kind, isAtBottom |-> s.isAtBottom,
                                  count |-> refs.lastMessageCount]]]

Show(w) ==
  /\ s' = w.s
  /\ refs' = w.refs
  /\ env' = w.env
  /\ UNCHANGED <<store, subs, fx, loads>>

\* the component is mounted with the organization, before a channel is
\* selected
InitMessageList ==
  /\ s = [isAtBottom |-> TRUE]
  /\ refs = [lastMessageCount |-> 0, lastChannelId |-> Null]
  /\ \E name \in ViewerNames :
       env = [channel |-> Null, messages |-> <<>>, currentUserName |-> name,
              issued |-> <<>>,
              event |-> [kind |-> "mount", isAtBottom |-> TRUE, count |-> 0]]
  /\ store = EmptyMap
  /\ subs = EmptyMap
  /\ fx = [ran |-> TRUE]
  /\ loads = EmptyMap

\* App.tsx 350-353: another channel is selected, or none
ChannelChanged(channel, near) ==
  /\ channel # env.channel
  /\ Show(Render([Before("channel") EXCEPT !.env.channel = channel], near,
                 {"listener", "follow", "selfPost"}))

\* App.tsx 350-353: a channel snapshot brings a new object for the channel
ChannelRefreshed ==
  /\ env.channel # Null
  /\ Show(Render(Before("refresh"), TRUE, {"follow", "selfPost"}))

\* App.tsx 324-339: setMessages with a new array
MessagesChanged(messages) ==
  Show(Render([Before("messages") EXCEPT !.env.messages = messages], TRUE,
              IF Len(messages) # Len(env.messages)
              THEN {"follow", "selfPost"} ELSE {"selfPost"}))

\* App.tsx 644: the profile has another display name
NameChanged(name) ==
  /\ name # env.currentUserName
  /\ Show(Render([Before("name") EXCEPT !.env.currentUserName = name], TRUE,
                 {"selfPost"}))

\* 55-61: handleScroll, after the user or an animation frame scrolled
ScrollEvent(near) ==
  /\ env.channel # Null
  /\ Show(Render([Before("scroll") EXCEPT !.s.isAtBottom = near], near,
                 IF near # s.isAtBottom THEN {"follow"} ELSE {}))

NextMessageList ==
  \/ \E channel \in Channels \cup {Null}, near \in BOOLEAN :
       ChannelChanged(channel, near)
  \/ ChannelRefreshed
  \/ \E messages \in MessageLists : MessagesChanged(messages)
  \/ \E name \in ViewerNames : NameChanged(name)
  \/ \E near \in BOOLEAN : ScrollEvent(near)

SpecMessageList == InitMessageList /\ [][NextMessageList]_vars

(***************************************************************************)
(* Storage cleanup: the removal of a pending attachment (MessageInput.tsx  *)
(* 217-238, src/unnamed/part_004 203-218) and the removal of a profile     *)
(* picture (profileService.ts 66-86).  s.attachments is the pending list   *)
(* of the message input; env holds blob storage, the user document, the    *)
(* removals that wait for storage, and what the last handler logged and    *)
(* wrote.  A storage path is a one-element sequence, no path is <<>>.      *)
(***************************************************************************)
AttachmentFiles == {"f1", "f2", "f3"}

\* what uploadFileWithThumbnail returns (part_004 186-198): an image (f1)
\* has a thumbnail; f3 is an attachment without a storage path
MessageAttachment(id) ==
  [id |-> id,
   storagePath |-> IF id = "f3" THEN <<>> ELSE <<"files/" \o id>>,
   thumbnailStoragePath |-> IF id = "f1" THEN <<"thumbnails/" \o id>> ELSE <<>>]

DownloadUrl ==
  "https://firebasestorage.googleapis.com/v0/b/app/o/profile-pictures%2Fu1%2Fprofile.jpg?alt=media"

\* the URL uploadProfilePicture stores, and a stored value that is no URL
ProfilePictureUrls == {DownloadUrl, "profile.jpg"}

ProfilePicturePath == <<"profile-pictures/u1/profile.jpg">>

\* new URL(text): the pathname ends where the query begins; a relative
\* reference without a base throws
NewURL(text) ==
  IF text = DownloadUrl
  THEN [valid |-> TRUE,
        pathname |-> <<"/v0/b/app", "/o/", "profile-pictures%2Fu1%2Fprofile.jpg">>,
        search |-> <<"?", "alt=media">>]
  ELSE [valid |-> FALSE, pathname |-> <<>>, search |-> <<>>]

\* pathname.match(/\/o\/(.+)\?/): the group between the first "/o/" and the
\* last question mark after it, <<>> for no match
pathMatch(pathname) ==
  LET hits == {h \in (1..Len(pathname)) \X (1..Len(pathname)) :
                 /\ pathname[h[1]] = "/o/"
                 /\ pathname[h[2]] = "?"
                 /\ h[2] > h[1] + 1}
  IN IF hits = {} THEN <<>>
     ELSE LET h == CHOOSE h \in hits :
                     \A g \in hits : \/ h[1] < g[1]
                                     \/ (h[1] = g[1] /\ h[2] >= g[2])
          IN <<SubSeq(pathname, h[1] + 1, h[2] - 1)>>

decodeURIComponent(group) ==
  IF group = <<"profile-pictures%2Fu1%2Fprofile.jpg">> THEN ProfilePicturePath
  ELSE group

Logged(w, level, text) ==
  [w EXCEPT !.env.issued = Append(@, [k |-> level, v |-> {text}])]

\* updateUserProfile (src/unnamed/part_001 146-172, part_002 189-215): an
\* undefined value is left out of the update, updatedAt is always written
updateUserProfile(w, updates) ==
  LET written == updates.profilePictureUrl # Undefined
  IN [w EXCEPT
        !.env.userDoc.profilePictureUrl =
           IF written THEN updates.profilePictureUrl.v ELSE @,
        !.env.issued =
           Append(@, [k |-> "updateDoc",
                      v |-> IF written THEN {"updatedAt", "profilePictureUrl"}
                            ELSE {"updatedAt"}])]

\* deleteProfilePicture (profileService.ts 66-86); failing is the set of
\* paths whose deleteObject is rejected
deleteProfilePicture(w, currentUrl, failing) ==
  LET url == NewURL(currentUrl)
      match == IF url.valid THEN pathMatch(url.pathname) ELSE <<>>
      filePath == IF match = <<>> THEN <<>> ELSE decodeURIComponent(match[1])
      threw == ~url.valid \/ (match # <<>> /\ filePath \in failing)
      deleted == IF match # <<>> /\ ~threw
                 THEN [w EXCEPT !.env.blobs = @ \ {filePath}] ELSE w
      caught == IF threw
                THEN Logged(deleted, "warn",
                            "Failed to delete old profile picture from storage:")
                ELSE deleted
  IN updateUserProfile(caught, [profilePictureUrl |-> Undefined])

\* deleteFileWithThumbnail (part_004 203-218): the file, then the thumbnail;
\* the first rejected deleteObject is logged and thrown again
deleteFileWithThumbnail(w, attachment, failing) ==
  LET main == attachment.storagePath
      thumb == attachment.thumbnailStoragePath
      mainThrew == main # <<>> /\ main \in failing
      thumbThrew == ~mainThrew /\ thumb # <<>> /\ thumb \in failing
      gone == (IF main # <<>> /\ ~mainThrew THEN {main} ELSE {})
                \cup (IF thumb # <<>> /\ ~mainThrew /\ ~thumbThrew THEN {thumb} ELSE {})
      deleted == [w EXCEPT !.env.blobs = @ \ gone]
  IN [threw |-> mainThrew \/ thumbThrew,
      w |-> IF mainThrew \/ thumbThrew
            THEN Logged(deleted, "error", "Error deleting file:")
            ELSE deleted]

\* handleRemoveAttachment that gives up when storage fails
handleRemoveAttachmentStopsOnFailure(w, attachmentId, failing) ==
  LET call == deleteFileWithThumbnail(w, MessageAttachment(attachmentId), failing)
  IN IF call.threw
     THEN Logged(call.w, "error", "Failed to delete attachment from storage:")
     ELSE [call.w EXCEPT
             !.s.attachments = SelectSeq(@, LAMBDA att : att # attachmentId)]

\* handleRemoveAttachment (MessageInput.tsx 222-238) from the answer of
\* storage on: the catch block, then the functional update of the list
handleRemoveAttachment(w, attachmentId, failing) ==
  LET call == deleteFileWithThumbnail(w, MessageAttachment(attachmentId), failing)
      caught == IF call.threw
                THEN Logged(call.w, "error",
                            "Failed to delete attachment from storage:")
                ELSE call.w
  IN [caught EXCEPT
        !.s.attachments = SelectSeq(@, LAMBDA att : att # attachmentId)]

\* the component and its environment as a handler finds them, with nothing
\* logged or written yet
Handling(kind, id, threw) ==
  [s |-> s, refs |-> refs,
   env |-> [env EXCEPT !.issued = <<>>,
                       !.event = [kind |-> kind, id |-> id, threw |-> threw]]]

InitCleanup ==
  /\ s = [attachments |-> <<>>]
  /\ refs = EmptyMap
  /\ \E url \in ProfilePictureUrls \cup {Null} :
       env = [blobs |-> IF url = DownloadUrl THEN {ProfilePicturePath} ELSE {},
              userDoc |-> [profilePictureUrl |-> url],
              uploaded |-> {},
              removing |-> {},
              issued |-> <<>>,
              event |-> [kind |-> "mount", id |-> Null, threw |-> FALSE]]
  /\ store = EmptyMap
  /\ subs = EmptyMap
  /\ fx = [ran |-> FALSE]
  /\ loads = EmptyMap

\* handleFilesSelected (MessageInput.tsx 217-219) with one uploaded file
FilesSelected(id) ==
  /\ id \notin env.uploaded
  /\ LET w == Handling("filesSelected", id, FALSE)
         attachment == MessageAttachment(id)
     IN Show([w EXCEPT
                !.s.attachments = Append(@, id),
                !.env.uploaded = @ \cup {id},
                !.env.blobs = @ \cup ({attachment.storagePath,
                                       attachment.thumbnailStoragePath} \ {<<>>})])

\* handleRemoveAttachment up to its await: the attachment is found in the
\* list of the render and its deletion is asked of storage
RemoveAttachmentClicked(id) ==
  /\ id \in Range(s.attachments)
  /\ id \notin env.removing
  /\ Show([Handling("removeClicked", id, FALSE) EXCEPT !.env.removing = @ \cup {id}])

\* storage answers, failing for the paths of failing
RemoveAttachmentSettled(id, failing) ==
  /\ id \in env.removing
  /\ LET attachment == MessageAttachment(id)
         w == Handling("removeAttachment", id,
                       {attachment.storagePath, attachment.thumbnailStoragePath}
                         \cap failing # {})
     IN Show(handleRemoveAttachment([w EXCEPT !.env.removing = @ \ {id}], id, failing))

\* setAttachments([]) after a message was sent (MessageInput.tsx 68-72)
AttachmentsSent ==
  /\ s.attachments # <<>>
  /\ Show([Handling("sent", Null, FALSE) EXCEPT !.s.attachments = <<>>])

\* uploadProfilePicture (profileService.ts 6-64) succeeds
ProfilePictureUploaded ==
  /\ env.userDoc.profilePictureUrl # DownloadUrl
  /\ LET w == Handling("uploadProfilePicture", Null, FALSE)
     IN Show(updateUserProfile([w EXCEPT !.env.blobs = @ \cup {ProfilePicturePath}],
                               [profilePictureUrl |-> JsString(DownloadUrl)]))

\* handleRemovePicture, or handleSubmit with a new file, of the profile form
\* (chatService.ts 446-450, 468-474) deletes the picture of the profile
ProfilePictureDeleted(failing) ==
  /\ env.userDoc.profilePictureUrl # Null
  /\ LET currentUrl == env.userDoc.profilePictureUrl
         url == NewURL(currentUrl)
         w == Handling("deleteProfilePicture", Null,
                       \/ ~url.valid
                       \/ \E path \in failing :
                            pathMatch(url.pathname) = <<path>>)
     IN Show(deleteProfilePicture(w, currentUrl, failing))

NextCleanup ==
  \/ \E id \in AttachmentFiles : FilesSelected(id)
  \/ \E id \in AttachmentFiles : RemoveAttachmentClicked(id)
  \/ \E id \in AttachmentFiles, failing \in SUBSET env.blobs :
       RemoveAttachmentSettled(id, failing)
  \/ AttachmentsSent
  \/ ProfilePictureUploaded
  \/ \E failing \in SUBSET env.blobs : ProfilePictureDeleted(failing)

SpecCleanup == InitCleanup /\ [][NextCleanup]_vars
(***************************************************************************)
(* The watcher callback reads the viewer and the selected channel from the *)
(* refs the effects keep (profileRef, currentUsernameRef,                  *)
(* currentUsernameAliasesRef, selectedChannelIdRef): the viewer and the    *)
(* selection as the last effects recorded them.                            *)
(***************************************************************************)
ViewerHasHandle == refs.currentUsername # NoUsername /\ refs.profile # NoProfile
AuthorIsViewer(m) == Normalized[m.author] = Normalized[refs.profile.displayName]
TokensMatchViewer(m) ==
  \E i \in 1..Len(MentionTokens[m.text]) :
     \/ MentionTokens[m.text][i] = refs.currentUsername
     \/ Includes(refs.currentUsernameAliases, MentionTokens[m.text][i])
RefsAgree ==
  /\ refs.selectedChannelId = s.selectedChannelId
  /\ refs.profile = s.profile
  /\ refs.currentUsername = currentUsername(s.profile)
  /\ refs.currentUsernameAliases = currentUsernameAliases(s.profile)

\* the watchers that deliver new messages, and the state a callback leaves
Watching(id) == Live(id, "mentions") /\ subs[id].initialized
AfterMessage(id, m) == WatcherSnapshot(World, id, <<m>>).s

\* C1: when a new-message event arrives on the watcher of channel C, the
\* viewer has a handle, the author is not the viewer and the tokens contain
\* the viewer's handle or an alias, then the count of C grows by exactly 1
\* if C is not the selected channel and the counts stay as they are if it
\* is.  Viewer and selection are the recorded ones, which are those of the
\* state whenever no effect is pending.
C1_MentionIncrement ==
  /\ Settled => RefsAgree
  /\ \A id \in DOMAIN subs : \A m \in Messages :
       (Watching(id) /\ ViewerHasHandle /\ ~AuthorIsViewer(m) /\ TokensMatchViewer(m))
       => IF refs.selectedChannelId # subs[id].target
          THEN CountOf(AfterMessage(id, m).mentionCounts, subs[id].target)
                 = CountOf(s.mentionCounts, subs[id].target) + 1
          ELSE AfterMessage(id, m).mentionCounts = s.mentionCounts

\* a mention was counted on a channel that is not the selected one, and the
\* selected channel, which is watched too, has a count of 0
C1_Witness ==
  \E c \in Channels :
     /\ CountOf(s.mentionCounts, c) = 1
     /\ c \in DOMAIN refs.mentionListeners
     /\ s.selectedChannelId # c
     /\ s.selectedChannelId \in DOMAIN refs.mentionListeners
     /\ subs[refs.mentionListeners[s.selectedChannelId]].initialized
     /\ Settled
\* C2: for every new-message event whose author, trimmed and compared
\* case-insensitively, equals the viewer's display name, no mention count
\* changes.  The callback suppresses such a message only when the trimmed
\* author is not empty: a viewer whose display name is blank is mentioned by
\* a message whose author is blank.
C2_SelfMentionAsStated ==
  \A id \in DOMAIN subs : \A m \in Messages :
     (Watching(id) /\ ViewerHasHandle /\ AuthorIsViewer(m))
     => AfterMessage(id, m).mentionCounts = s.mentionCounts

\* C3: selecting channel C removes the entry of C from mentionCounts, and
\* when no other effect is pending it leaves the count of every other
\* channel as it is.
AfterSelect(C) ==
  Flush([Flush(World) EXCEPT !.s.selectedChannelId = C]).s.mentionCounts

C3_SelectClearsOnlySelected ==
  \A C \in Range(s.channels) :
     (env.mounted /\ fx.ran)
     => /\ C \notin DOMAIN AfterSelect(C)
        /\ Settled => \A c \in Channels \ {C} :
                        CountOf(AfterSelect(C), c) = CountOf(s.mentionCounts, c)

\* a channel with a count can be selected while another one has a count too
C3_Witness ==
  /\ Settled
  /\ env.mounted
  /\ \E C \in Range(s.channels) : \E c \in Range(s.channels) \ {C} :
        /\ CountOf(s.mentionCounts, C) >= 1
        /\ CountOf(s.mentionCounts, c) >= 1
\* C4: whenever the selected organization id changes, the map of mention
\* counts becomes empty: the effects of the render that has the new id, run
\* after a callback or a continuation changed it or after a click in the
\* organization picker, leave no entry.
OrganizationChanged(w) ==
  w.fx.ran /\ w.fx.d.selectedOrganizationId # w.s.selectedOrganizationId

C4_OrganizationChangeClears ==
  env.mounted =>
    /\ OrganizationChanged(World) => Flush(World).s.mentionCounts = EmptyMap
    /\ \A o \in Range(s.organizations) :
         OrganizationChanged(HandleSelectOrganization(Flush(World), o))
         => Flush(HandleSelectOrganization(Flush(World), o)).s.mentionCounts = EmptyMap

\* another organization can be picked while a channel has a count
C4_Witness ==
  /\ env.mounted
  /\ Settled
  /\ s.showOrganizationPicker
  /\ s.mentionCounts # EmptyMap
  /\ \E o \in Range(s.organizations) : o # s.selectedOrganizationId

\* C5: whenever the viewer's primary handle becomes available for the first
\* time or changes to another handle, the effects of the render that has the
\* new handle leave no mention count.
UsernameChanged ==
  /\ fx.ran
  /\ currentUsername(s.profile) # NoUsername
  /\ currentUsername(s.profile) # currentUsername(fx.d.profile)

C5_UsernameChangeClears ==
  (env.mounted /\ UsernameChanged) => Flush(World).s.mentionCounts = EmptyMap

\* counts exist when the handle changes from one handle to another, and
\* when a viewer that had no handle gets one
C5_Witness ==
  /\ env.mounted
  /\ UsernameChanged
  /\ s.mentionCounts # EmptyMap
  /\ s.channels # <<>>
  /\ currentUsername(fx.d.profile) # NoUsername

C5_WitnessFirst ==
  /\ env.mounted
  /\ UsernameChanged
  /\ s.mentionCounts # EmptyMap
  /\ fx.d.profile # NoProfile
  /\ currentUsername(fx.d.profile) = NoUsername
\* C6: the messages that exist already when the watcher of a channel is
\* opened, which its first snapshot holds, never change a mention count.
C6_CatchUpNotCounted ==
  \A id \in DOMAIN subs : \A existing \in Existing :
     (Live(id, "mentions") /\ ~subs[id].initialized)
     => WatcherSnapshot(World, id, existing).s.mentionCounts = s.mentionCounts

\* a watcher of a channel that is not the selected one has not had its first
\* snapshot, and the channel holds a message of another author that
\* mentions the viewer
C6_Witness ==
  \E id \in DOMAIN subs : \E existing \in Existing \ {<<>>} :
     /\ env.mounted
     /\ Live(id, "mentions")
     /\ ~subs[id].initialized
     /\ ViewerHasHandle
     /\ ~AuthorIsViewer(existing[1])
     /\ TokensMatchViewer(existing[1])
     /\ refs.selectedChannelId # subs[id].target
(***************************************************************************)
(* C7.  The life of a mention watcher: subscribed by the mention effect,   *)
(* held in the registry while open, unsubscribed once and dropped from the *)
(* registry by the run of the mention effect whose render has (a) a        *)
(* channel list without the channel, (b) no profile or (c) no handle; in   *)
(* (b) and (c) the registry is empty after the run.  A watcher that stays  *)
(* in the registry is the same subscription, still open.                   *)
(***************************************************************************)
MentionEffectDue(w) ==
  \/ ~w.fx.ran
  \/ w.fx.d.channels # w.s.channels
  \/ w.fx.d.profile # w.s.profile

NoViewerHandle(r) == r.profile = NoProfile \/ currentUsername(r.profile) = NoUsername

RegistryHoldsOpenWatchers(w) ==
  \A c \in DOMAIN w.refs.mentionListeners :
     LET id == w.refs.mentionListeners[c]
     IN /\ id \in DOMAIN w.subs
        /\ w.subs[id].kind = "mentions"
        /\ w.subs[id].target = c
        /\ w.subs[id].open
        /\ w.subs[id].unsubCalls = 0

\* C7: watcher lifecycle not subscribed -> subscribed -> unsubscribed, with
\* removal by the mention effect in the cases (a), (b) and (c)
C7_WatcherLifecycle ==
  /\ RegistryHoldsOpenWatchers(World)
  /\ (env.mounted /\ MentionEffectDue(World)) =>
       LET after == Flush(World)
       IN /\ RegistryHoldsOpenWatchers(after)
          /\ DOMAIN after.refs.mentionListeners \subseteq Range(s.channels)
          /\ NoViewerHandle(s) => after.refs.mentionListeners = EmptyMap
          /\ \A c \in DOMAIN refs.mentionListeners :
               LET id == refs.mentionListeners[c]
               IN IF c \in Range(s.channels) /\ ~NoViewerHandle(s)
                  THEN after.refs.mentionListeners[c] = id
                  ELSE /\ ~after.subs[id].open
                       /\ after.subs[id].unsubCalls = 1
                       /\ id \notin MapValues(after.refs.mentionListeners)

\* (a): a watched channel left the list of a viewer with a handle
C7_Witness ==
  /\ env.mounted
  /\ MentionEffectDue(World)
  /\ ~NoViewerHandle(s)
  /\ s.channels # <<>>
  /\ \E c \in DOMAIN refs.mentionListeners : c \notin Range(s.channels)

\* (b): the profile is gone while watchers are registered
C7_WitnessNoProfile ==
  /\ env.mounted
  /\ MentionEffectDue(World)
  /\ s.profile = NoProfile
  /\ refs.mentionListeners # EmptyMap

\* (c): the profile has no handle any more while watchers are registered
C7_WitnessNoHandle ==
  /\ env.mounted
  /\ MentionEffectDue(World)
  /\ s.profile # NoProfile
  /\ currentUsername(s.profile) = NoUsername
  /\ refs.mentionListeners # EmptyMap

(***************************************************************************)
(* C8.  Every unsubscribe function is called exactly once.  A closed       *)
(* subscription is forgotten only when it was unsubscribed once and        *)
(* nothing holds its unsubscribe function (Collect), so a subscription of  *)
(* a reachable state that is closed, or that was unsubscribed, was         *)
(* unsubscribed twice or is still held; an open subscription nothing holds *)
(* can never be unsubscribed.  The subscriptions that are open when no     *)
(* effect is pending are the ones the render needs, and the unmount closes *)
(* every one of them once.                                                 *)
(***************************************************************************)
NeededSubscriptions(r) ==
  {<<"channels", o>> : o \in {r.selectedOrganizationId} \ {Null}}
    \cup {<<"messages", c>> : c \in {r.selectedChannelId} \ {Null}}
    \cup {<<"mentions", c>> : c \in IF NoViewerHandle(r) THEN {} ELSE Range(r.channels)}

OpenSubscriptions(w) ==
  {<<w.subs[id].kind, w.subs[id].target>> : id \in {i \in DOMAIN w.subs : w.subs[i].open}}

\* C8: the unsubscribe function of every subscription is invoked exactly once
C8_UnsubscribeExactlyOnce ==
  /\ \A id \in DOMAIN subs :
       /\ subs[id].open
       /\ subs[id].unsubCalls = 0
       /\ id \in Referenced(World)
  /\ \A id, other \in DOMAIN subs :
       (subs[id].kind = subs[other].kind /\ subs[id].target = subs[other].target)
         => id = other
  /\ (env.mounted /\ Settled) => OpenSubscriptions(World) = NeededSubscriptions(s)
  /\ (env.mounted /\ fx.ran) =>
       \A id \in DOMAIN subs :
          /\ ~Teardown(World).subs[id].open
          /\ Teardown(World).subs[id].unsubCalls = 1
  /\ ~env.mounted => subs = EmptyMap

\* the three kinds of subscription are open and a watched channel is about
\* to leave the list
C8_Witness ==
  /\ env.mounted
  /\ fx.chanSub # NoSub
  /\ fx.msgSub # NoSub
  /\ Cardinality(DOMAIN refs.mentionListeners) >= 2
  /\ EffectsPending(World)
  /\ s.selectedOrganizationId # fx.d.selectedOrganizationId

\* after the unmount
C8_WitnessUnmounted == ~env.mounted /\ env.authChanges > 0

(***************************************************************************)
(* C9.  Callbacks of the watchers that run one after the other, with no    *)
(* render, effect or other event in between (the same tick), in either     *)
(* order, and the callbacks of one snapshot with two added messages.       *)
(***************************************************************************)
RECURSIVE TotalOver(_, _)
TotalOver(counts, chans) ==
  IF chans = {} THEN 0
  ELSE LET c == CHOOSE x \in chans : TRUE
       IN CountOf(counts, c) + TotalOver(counts, chans \ {c})

TotalMentions(counts) == TotalOver(counts, Channels)

\* the event counts for the claim: a viewer with a handle, another author,
\* a mention of the viewer, a channel that is not the selected one
MatchingEvent(id, m) ==
  /\ ViewerHasHandle
  /\ ~AuthorIsViewer(m)
  /\ TokensMatchViewer(m)
  /\ refs.selectedChannelId # subs[id].target

OwnEvents(c, id1, m1, id2, m2) ==
  (IF subs[id1].target = c THEN 1 ELSE 0) + (IF subs[id2].target = c THEN 1 ELSE 0)

AfterTwoMessages(id1, m1, id2, m2) ==
  WatcherSnapshot(WatcherSnapshot(World, id1, <<m1>>), id2, <<m2>>).s.mentionCounts

\* C9: no increment is lost when callbacks interleave, and a callback
\* changes the count of its own channel only
C9_NoLostIncrement ==
  /\ \A id \in DOMAIN subs : \A m \in Messages :
       Watching(id) =>
         \A c \in Channels \ {subs[id].target} :
            CountOf(AfterMessage(id, m).mentionCounts, c) = CountOf(s.mentionCounts, c)
  /\ \A id1, id2 \in DOMAIN subs : \A m1, m2 \in Messages :
       (/\ Watching(id1) /\ Watching(id2)
        /\ MatchingEvent(id1, m1) /\ MatchingEvent(id2, m2))
       => /\ TotalMentions(AfterTwoMessages(id1, m1, id2, m2))
               = TotalMentions(s.mentionCounts) + 2
          /\ \A c \in Channels :
               CountOf(AfterTwoMessages(id1, m1, id2, m2), c)
                 = CountOf(s.mentionCounts, c) + OwnEvents(c, id1, m1, id2, m2)
          /\ AfterTwoMessages(id1, m1, id2, m2) = AfterTwoMessages(id2, m2, id1, m1)
          /\ id1 = id2 =>
               WatcherSnapshot(World, id1, <<m1, m2>>).s.mentionCounts
                 = AfterTwoMessages(id1, m1, id2, m2)

\* two watched channels besides the selected one, counts on both already
C9_Witness ==
  /\ Settled
  /\ ViewerHasHandle
  /\ \E id1, id2 \in DOMAIN subs :
       /\ Watching(id1) /\ Watching(id2)
       /\ subs[id1].target # subs[id2].target
       /\ subs[id1].target # refs.selectedChannelId
       /\ subs[id2].target # refs.selectedChannelId
       /\ CountOf(s.mentionCounts, subs[id1].target) >= 1
       /\ CountOf(s.mentionCounts, subs[id2].target) >= 1
       /\ \E m \in Messages : MatchingEvent(id1, m) /\ MatchingEvent(id2, m)

(***************************************************************************)
(* C10.  The organization selected when the list of a load in flight       *)
(* arrives, for every list the backend can return.                         *)
(***************************************************************************)
StoredOrganizationOf(u) == getItem(store, organizationStorageKey(u))

AfterOrganizationsLoad(members) ==
  LoadOrganizationsDone(World, loads.org, fetchOrganizationsForUser(members))
    .s.selectedOrganizationId

FirstByName(members) ==
  IF members = {} THEN Null
  ELSE CHOOSE o \in members : \A p \in members : OrgNameRank(o) <= OrgNameRank(p)

\* C10: the current id if listed, else the id stored for the user if
\* listed, else the first organization by name, or none
C10_OrganizationRestoration ==
  (env.mounted /\ loads.org # Null) =>
    /\ Settled => loads.org = s.authUser
    /\ \A members \in SUBSET Orgs :
         AfterOrganizationsLoad(members) =
           IF s.selectedOrganizationId # Null /\ s.selectedOrganizationId \in members
           THEN s.selectedOrganizationId
           ELSE IF StoredOrganizationOf(loads.org) # Null
                   /\ StoredOrganizationOf(loads.org) \in members
                THEN StoredOrganizationOf(loads.org)
                ELSE FirstByName(members)

\* a load in flight while the selected id and the stored id differ
C10_Witness ==
  /\ env.mounted
  /\ loads.org # Null
  /\ s.selectedOrganizationId # Null
  /\ StoredOrganizationOf(loads.org) # Null
  /\ StoredOrganizationOf(loads.org) # s.selectedOrganizationId

\* a load in flight with a stored id and no selected one
C10_WitnessStored ==
  /\ env.mounted
  /\ loads.org # Null
  /\ s.selectedOrganizationId = Null
  /\ StoredOrganizationOf(loads.org) # Null

\* a load in flight with neither
C10_WitnessFirst ==
  /\ env.mounted
  /\ loads.org # Null
  /\ s.selectedOrganizationId = Null
  /\ StoredOrganizationOf(loads.org) = Null

(***************************************************************************)
(* C11.  The picker after the list of a load in flight arrives: asked for  *)
(* and rendered when several organizations come without a valid stored     *)
(* choice, also after the effects of that render while the user of the     *)
(* load is signed in; not asked for when one organization comes, which is  *)
(* then the selected one.                                                  *)
(***************************************************************************)
AfterOrganizationsArrive(members) ==
  LoadOrganizationsDone(World, loads.org, fetchOrganizationsForUser(members))

StoredChoiceValid(members) ==
  StoredOrganizationOf(loads.org) # Null /\ StoredOrganizationOf(loads.org) \in members

\* C11: several organizations and no valid stored id: the picker is shown;
\* exactly one organization: it is selected and the picker is not shown
C11_PickerOnLoad ==
  (env.mounted /\ loads.org # Null) =>
    \A members \in SUBSET Orgs :
      /\ (Cardinality(members) > 1 /\ ~StoredChoiceValid(members)) =>
           /\ OrganizationPickerRendered(AfterOrganizationsArrive(members).s)
           /\ loads.org = s.authUser =>
                OrganizationPickerRendered(Flush(AfterOrganizationsArrive(members)).s)
      /\ Cardinality(members) = 1 =>
           /\ AfterOrganizationsArrive(members).s.selectedOrganizationId \in members
           /\ ~AfterOrganizationsArrive(members).s.showOrganizationPicker
           /\ ~OrganizationPickerRendered(Flush(AfterOrganizationsArrive(members)).s)

\* a load in flight whose stored id is gone while the picker is not open
C11_Witness ==
  /\ env.mounted
  /\ loads.org # Null
  /\ ~s.showOrganizationPicker
  /\ ~StoredChoiceValid(Orgs)

\* a load in flight while the picker is open and another id is selected
C11_WitnessOne ==
  /\ env.mounted
  /\ loads.org # Null
  /\ s.showOrganizationPicker
  /\ s.selectedOrganizationId # Null

(***************************************************************************)
(* C12.  The channel selected when a snapshot of the channel list arrives, *)
(* for every snapshot the organization of the subscription can deliver.    *)
(***************************************************************************)
StoredChannelOf(u, o) ==
  IF u = Null THEN Null ELSE getItem(store, channelStorageKey(u, o))

AfterChannelsSnapshot(id, docs) ==
  OnChannelsUpdate(World, id, ChannelSnapshot(docs)).s.selectedChannelId

\* C12: the current channel if listed, else the channel stored for the user
\* and the organization if listed, else the first of the snapshot, or none
C12_ChannelRestoration ==
  \A id \in DOMAIN subs :
    (env.mounted /\ Live(id, "channels")) =>
      \A docs \in SUBSET ChannelsOf(env.channelOrg, subs[id].target) :
        /\ AfterChannelsSnapshot(id, docs) =
             IF s.selectedChannelId # Null /\ s.selectedChannelId \in docs
             THEN s.selectedChannelId
             ELSE IF StoredChannelOf(subs[id].user, subs[id].target) # Null
                     /\ StoredChannelOf(subs[id].user, subs[id].target) \in docs
                  THEN StoredChannelOf(subs[id].user, subs[id].target)
                  ELSE IF docs = {} THEN Null ELSE Head(ChannelSnapshot(docs))
        /\ docs # {} => AfterChannelsSnapshot(id, docs) \in docs
        /\ Settled => (subs[id].user = s.authUser
                       /\ subs[id].target = s.selectedOrganizationId)

\* the selected channel is of the list and a snapshot without it can come
C12_Witness ==
  /\ env.mounted
  /\ Settled
  /\ \E id \in DOMAIN subs :
       /\ Live(id, "channels")
       /\ s.selectedChannelId \in Range(s.channels)
       /\ ChannelsOf(env.channelOrg, subs[id].target) \ {s.selectedChannelId} # {}

\* no channel is selected and the stored one can come
C12_WitnessStored ==
  /\ env.mounted
  /\ \E id \in DOMAIN subs :
       /\ Live(id, "channels")
       /\ s.selectedChannelId = Null
       /\ StoredChannelOf(subs[id].user, subs[id].target)
            \in ChannelsOf(env.channelOrg, subs[id].target)

(***************************************************************************)
(* C13.  A visit to another organization and back: the click in the        *)
(* picker with the effects of its render, the snapshot of the subscription *)
(* those effects opened with the effects of its render, and the same for   *)
(* the way back.                                                           *)
(***************************************************************************)
SwitchTo(w, o) == Flush(HandleSelectOrganization(Flush(w), o))

ChannelsArrive(w) ==
  OnChannelsUpdate(w, w.fx.chanSub,
                   ChannelSnapshot(ChannelsOf(env.channelOrg, w.subs[w.fx.chanSub].target)))

VisitAndReturn(o) ==
  ChannelsArrive(SwitchTo(Flush(ChannelsArrive(SwitchTo(World, o))),
                          s.selectedOrganizationId))

\* the channel list of the selected organization is loaded and one of its
\* channels is selected
AtHomeIn(o) ==
  /\ env.mounted
  /\ Settled
  /\ s.authUser # Null
  /\ s.selectedOrganizationId = o
  /\ s.selectedChannelId \in Range(s.channels)
  /\ Range(s.channels) \subseteq ChannelsOf(env.channelOrg, o)
  /\ StoredChannelOf(s.authUser, o) = s.selectedChannelId

\* C13: a switch of organization changes no stored channel, and the channel
\* last selected in an organization is selected again after a visit to
\* another organization
C13_SwitchKeepsRememberedChannel ==
  \A home \in Orgs : \A o \in Range(s.organizations) \ {home} :
    AtHomeIn(home) =>
      /\ \A any \in Orgs :
           getItem(SwitchTo(World, o).store, channelStorageKey(s.authUser, any))
             = StoredChannelOf(s.authUser, any)
      /\ VisitAndReturn(o).s.selectedChannelId = s.selectedChannelId

(***************************************************************************)
(* C14.  Persist and restore on every store the helpers can produce.       *)
(***************************************************************************)
RestoresOf(st, u) ==
  [o \in Orgs \cup {Null} |->
     IF o = Null THEN readStoredOrganizationId(st, u) ELSE readStoredChannelId(st, u, o)]

\* C14: restore returns what was persisted, nothing after null was
\* persisted, and a persist for one user changes no restore of another
C14_PersistenceRoundTrip ==
  \A u \in Users :
    /\ \A x \in Orgs :
         readStoredOrganizationId(persistOrganizationId(store, u, x), u) = x
    /\ readStoredOrganizationId(persistOrganizationId(store, u, Null), u) = Null
    /\ organizationStorageKey(u) \notin DOMAIN persistOrganizationId(store, u, Null)
    /\ \A o \in Orgs :
         /\ \A c \in Channels :
              readStoredChannelId(persistChannelId(store, u, o, c), u, o) = c
         /\ readStoredChannelId(persistChannelId(store, u, o, Null), u, o) = Null
         /\ channelStorageKey(u, o) \notin DOMAIN persistChannelId(store, u, o, Null)
    /\ \A v \in Users \ {u} :
         /\ \A x \in Orgs \cup {Null} :
              RestoresOf(persistOrganizationId(store, u, x), v) = RestoresOf(store, v)
         /\ \A o \in Orgs : \A c \in Channels \cup {Null} :
              RestoresOf(persistChannelId(store, u, o, c), v) = RestoresOf(store, v)

\* both users have an organization and a channel stored
C14_Witness ==
  \A u \in Users :
    /\ readStoredOrganizationId(store, u) # Null
    /\ \E o \in Orgs : readStoredChannelId(store, u, o) # Null

(***************************************************************************)
(* C15.  u1 is the only user who signs in, so u1 has signed out when the   *)
(* auth state changed and nobody is signed in.  From the run of the        *)
(* effects of the signed-out render on, whatever callback or effect comes  *)
(* later, the store holds no key of u1; the keys of u2 never change.       *)
(***************************************************************************)
KeysOfUser(st, u) == {k \in DOMAIN st : k[2] = u}

SignedOut ==
  /\ env.mounted
  /\ env.authChanges > 0
  /\ s.authUser = Null
  /\ Settled \/ refs.lastUserId = Null

\* C15: after the sign-out no organization key and no channel key of the
\* user is stored or stored again, and the keys of other users are as before
C15_SignOutClearsSelections ==
  /\ SignedOut =>
       /\ KeysOfUser(store, "u1") = {}
       /\ readStoredOrganizationId(store, "u1") = Null
       /\ \A o \in Orgs : readStoredChannelId(store, "u1", o) = Null
  /\ RestoresOf(store, "u2") = RestoresOf(SharedDeviceStore, "u2")

\* signed out, the effects of the signed-out render have run
C15_Witness ==
  /\ SignedOut
  /\ Settled
  /\ env.signOut = "idle"

\* signed out, and the continuation of handleSignOut came after the effects
C15_WitnessLate ==
  /\ SignedOut
  /\ refs.lastUserId = Null
  /\ ~Settled

(***************************************************************************)
(* C16.  The order of the list handed to onUpdate.                         *)
(***************************************************************************)
InClaimedOrder(a, b) ==
  IF DocHasCreatedAt(a) /\ DocHasCreatedAt(b) THEN DocCreatedAt(a) <= DocCreatedAt(b)
  ELSE IF DocHasCreatedAt(a) THEN TRUE
  ELSE IF DocHasCreatedAt(b) THEN FALSE
  ELSE DocNameRank(a) <= DocNameRank(b)

\* C16: a delivered channel list is ascending by creation time, channels
\* without creation time come after the dated ones, in the order of their
\* names
C16_SnapshotOrder ==
  \A i, j \in 1..Len(s.channels) :
     i < j => InClaimedOrder(s.channels[i], s.channels[j])

(***************************************************************************)
(* C17 to C20.  The html of a rendered message.  The allow-list of the     *)
(* statements is the one that has the hyperlink.                           *)
(***************************************************************************)
RECURSIVE ElementsOf(_)
ElementsOf(nodes) ==
  IF nodes = <<>> THEN {}
  ELSE (IF Head(nodes).kind = "element"
        THEN {Head(nodes)} \cup ElementsOf(Head(nodes).kids) ELSE {})
       \cup ElementsOf(Tail(nodes))

AllowList == allowedTags \cup {"a"}
EventHandlers == {"onclick"}
Rendered == s.messages[1].rendered
Html == s.messages[1].html

\* C17: the output holds no script, no iframe, no event-handler attribute
\* and no element outside the allow-list
C17_NoUnsafeElement ==
  Rendered =>
    \A e \in ElementsOf(Html) :
      /\ e.tag \notin {"script", "iframe"}
      /\ e.tag \in AllowList
      /\ DOMAIN e.attrs \cap EventHandlers = {}

\* C18: an element of the output carries no attribute, but for the href of
\* a hyperlink with its rel and target
C18_NoOtherAttribute ==
  Rendered =>
    \A e \in ElementsOf(Html) :
      DOMAIN e.attrs \subseteq
        (IF e.tag = "a" THEN {"href", "rel", "target"} ELSE {})

\* C19: a hyperlink with an http, https or mailto href is kept with that
\* href and the forced rel and target; a hyperlink with another href is
\* kept without its href
Root == s.messages[1].text[1]

C19_HyperlinkHandling ==
  (Rendered /\ Root.tag = "a" /\ "href" \in DOMAIN Root.attrs) =>
    /\ Html # <<>>
    /\ Html[1].kind = "element"
    /\ Html[1].tag = "a"
    /\ IF Head(Root.attrs["href"]) \in {"http:", "https:", "mailto:"}
       THEN /\ DOMAIN Html[1].attrs = {"href", "rel", "target"}
            /\ Html[1].attrs["href"] = Root.attrs["href"]
            /\ Html[1].attrs["rel"] = "noreferrer noopener"
            /\ Html[1].attrs["target"] = "_blank"
       ELSE "href" \notin DOMAIN Html[1].attrs

\* C20: on a value of allow-listed tags and safe hrefs, sanitizing the
\* sanitized value changes nothing
OnlyAllowListed(value) ==
  \A e \in ElementsOf(value) :
    /\ e.tag \in AllowList
    /\ "href" \in DOMAIN e.attrs => isSafeHref(e.attrs["href"])

C20_Idempotent ==
  (Rendered /\ OnlyAllowListed(s.messages[1].text)) =>
    sanitizeMessageHtml(Html) = Html

(***************************************************************************)
(* C21 to C23.  The scroll controller of the message list.                 *)
(***************************************************************************)
\* the messages of the list beyond the last observed count
AddedMessages ==
  {env.messages[i] : i \in (env.event.count + 1)..Len(env.messages)}

ListGrew ==
  /\ env.event.kind = "messages"
  /\ env.channel # Null
  /\ Len(env.messages) > env.event.count

ByViewer(author) == Normalized[author] = Normalized[env.currentUserName]

\* C21: the render that shows another channel calls for a scroll to the
\* bottom with behavior auto and leaves the view following, whether it was
\* following or not
C21_SwitchScrollsToBottom ==
  (env.event.kind = "channel" /\ env.channel # Null) =>
    /\ env.issued # <<>>
    /\ env.issued[1] = "auto"
    /\ s.isAtBottom
    /\ refs.lastChannelId = env.channel

C21_Witness ==
  /\ env.event.kind = "channel"
  /\ env.channel # Null
  /\ ~env.event.isAtBottom
  /\ s.isAtBottom

\* C22: new messages in the same channel, none by the viewer: a following
\* view is scrolled smoothly to the bottom, a view that is not following
\* gets no scroll and stays not following
C22_NewMessagesOfOthers ==
  (ListGrew /\ \A author \in AddedMessages : ~ByViewer(author)) =>
    IF env.event.isAtBottom
    THEN env.issued = <<"smooth">> /\ s.isAtBottom
    ELSE env.issued = <<>> /\ ~s.isAtBottom

C22_Witness ==
  /\ ListGrew
  /\ \A author \in AddedMessages : ~ByViewer(author)
  /\ ~env.event.isAtBottom
  /\ env.event.count > 0

C22_WitnessFollowing ==
  /\ ListGrew
  /\ \A author \in AddedMessages : ~ByViewer(author)
  /\ env.event.isAtBottom
  /\ env.issued = <<"smooth">>

C24_HandleDerivation ==
  s.profile # NoProfile =>
    LET candidates == currentUsernameCandidates(s.profile)
        fromName == sanitizeUsername(s.profile.displayName)
        fromEmail == sanitizeUsername(LocalPart(s.profile.email))
    IN /\ \A i \in 1..Len(candidates) :
            /\ candidates[i] # <<>>
            /\ \A k \in 1..Len(candidates[i]) :
                 candidates[i][k] \in Lower \cup HandlePunct
            /\ \A j \in 1..Len(candidates) : candidates[j] = candidates[i] => j = i
       /\ fromName # <<>> =>
            /\ currentUsername(s.profile) = fromName
            /\ \A i \in 1..Len(currentUsernameAliases(s.profile)) :
                 currentUsernameAliases(s.profile)[i] = fromEmail
       /\ (fromName = <<>> /\ fromEmail # <<>>) => candidates = <<fromEmail>>
       /\ (fromName = <<>> /\ fromEmail = <<>>) => candidates = <<>>

(***************************************************************************)
(* C25.  The tokens of a text, stated by position: a token is the longest  *)
(* run of handle characters behind an at sign, lower-cased.                *)
(***************************************************************************)
RunBehind(plain, i) ==
  LET ends == {j \in i..Len(plain) :
                 \A k \in (i + 1)..j : IsHandleChar(ToLowerChar(plain[k]))}
  IN SubSeq(plain, i + 1, CHOOSE j \in ends : \A other \in ends : other <= j)

TokenSet(text) ==
  LET plain == plainTextFromHtml(text)
  IN {ToLower(RunBehind(plain, i)) :
        i \in {k \in 1..Len(plain) : plain[k] = "@" /\ RunBehind(plain, k) # <<>>}}

ViewerHandles ==
  {refs.currentUsername} \cup
  {refs.currentUsernameAliases[i] : i \in 1..Len(refs.currentUsernameAliases)}

\* C25: the message of another member counts as a mention of the viewer
\* exactly when a token of its plain text is the primary handle or an alias
C25_MentionMatch ==
  env.delivered =>
    (CountOf(s.mentionCounts, "c1") = 1
       <=> TokenSet(env.incoming.text) \cap (ViewerHandles \ {NoUsername}) # {})

\* the text is @A.d and the viewer's handle is a.d
C25_Witness ==
  /\ env.delivered
  /\ env.incoming.text = <<"@", "A", ".", "d">>
  /\ refs.currentUsername = <<"a", ".", "d">>
  /\ CountOf(s.mentionCounts, "c1") = 1

\* the handle of the display name, an alias
C25_WitnessAlias ==
  /\ env.delivered
  /\ env.incoming.text = <<"@", "A", "d", "A">>
  /\ Includes(refs.currentUsernameAliases, <<"a", "d", "a">>)
  /\ CountOf(s.mentionCounts, "c1") = 1

(***************************************************************************)
(* C26.  The attachments of a mapped message.                              *)
(***************************************************************************)
HasString(item, name) == item.t = "object" /\ Field(item, name).t = "string"

WellFormed(item) == HasString(item, "url") /\ HasString(item, "name")

\* C26: the mapped list holds the well-formed records of the array, in
\* their order, and nothing for a value that is no array; a kept record
\* without a string id has its storage path as id, or its url when it has
\* no storage path
C26_AttachmentMapping ==
  s.messages[1].mapped =>
    LET value == s.messages[1].doc
        attachments == s.messages[1].attachments
        kept == IF value.t = "array" THEN SelectSeq(value.items, WellFormed) ELSE <<>>
    IN /\ Len(attachments) = Len(kept)
       /\ \A i \in 1..Len(kept) :
            /\ attachments[i].url = Field(kept[i], "url").v
            /\ attachments[i].name = Field(kept[i], "name").v
            /\ attachments[i].id =
                 IF HasString(kept[i], "id") THEN Field(kept[i], "id").v
                 ELSE IF HasString(kept[i], "storagePath")
                         /\ Field(kept[i], "storagePath").v # ""
                      THEN Field(kept[i], "storagePath").v
                      ELSE Field(kept[i], "url").v

\* a malformed record before a well-formed one that has a storage path and
\* no id
C26_Witness ==
  /\ s.messages[1].mapped
  /\ s.messages[1].doc.t = "array"
  /\ Len(s.messages[1].doc.items) = 2
  /\ ~WellFormed(s.messages[1].doc.items[1])
  /\ WellFormed(s.messages[1].doc.items[2])
  /\ ~HasString(s.messages[1].doc.items[2], "id")
  /\ Len(s.messages[1].attachments) = 1
  /\ s.messages[1].attachments[1].id = "p"

(***************************************************************************)
(* C27.  An error of the channel-list subscription.                        *)
(***************************************************************************)
\* C27: the error of a live channel subscription goes to the onError
\* callback of a caller that gave one: the channel list becomes empty,
\* loading ends and the error message is set; without a callback it is
\* logged and nothing else changes; in neither case is it delivered as a
\* snapshot (the selected channel and the stored channel stay as they are)
C27_ChannelListenerError ==
  \A id \in DOMAIN subs, listenerError \in ListenerErrors :
    Live(id, "channels") =>
      LET given == ChannelListenerError(World, id, TRUE, listenerError)
          none == ChannelListenerError(World, id, FALSE, listenerError)
      IN /\ given.s.channels = <<>>
         /\ ~given.s.channelsLoading
         /\ given.s.error \notin {Null, ""}
         /\ listenerError.isError => given.s.error = listenerError.message
         /\ ~given.subs[id].logged
         /\ given.s.selectedChannelId = s.selectedChannelId
         /\ given.store = store
         /\ none.subs[id].logged
         /\ none.s = s
         /\ none.store = store

\* the subscription of the selected organization failed while its channels
\* were shown: the list is empty, loading is over and the message is set
C27_Witness ==
  /\ fx.chanSub # NoSub
  /\ subs[fx.chanSub].failed
  /\ s.channels = <<>>
  /\ ~s.channelsLoading
  /\ s.error = "permission-denied"
  /\ s.selectedChannelId # Null


(***************************************************************************)
(* C28: storage cleanup is best-effort.  When the deletion of a removed    *)
(* attachment from blob storage fails, the failure is logged and the       *)
(* attachment is still removed from the pending list; when the deletion of *)
(* a profile picture fails, the failure is logged and the profile record   *)
(* is still updated.                                                       *)
(***************************************************************************)
IssuedLog(level, text) ==
  \E i \in DOMAIN env.issued : env.issued[i] = [k |-> level, v |-> {text}]

C28_BestEffortCleanup ==
  /\ (env.event.kind = "removeAttachment" /\ env.event.threw) =>
       /\ IssuedLog("error", "Failed to delete attachment from storage:")
       /\ env.event.id \notin Range(s.attachments)
  /\ (env.event.kind = "deleteProfilePicture" /\ env.event.threw) =>
       /\ IssuedLog("warn", "Failed to delete old profile picture from storage:")
       /\ \E i \in DOMAIN env.issued : env.issued[i].k = "updateDoc"

\* storage refused to delete the file of f1, which is still stored, and f1
\* has left the pending list
C28_Witness ==
  /\ env.event = [kind |-> "removeAttachment", id |-> "f1", threw |-> TRUE]
  /\ MessageAttachment("f1").storagePath \in env.blobs
  /\ "f1" \notin Range(s.attachments)
  /\ "f2" \in Range(s.attachments)

\* the stored picture URL could not be parsed and the record was updated
C28_WitnessProfile ==
  /\ env.event.kind = "deleteProfilePicture"
  /\ env.event.threw
  /\ Len(env.issued) = 2


(***************************************************************************)
(* C29: in every state where all pending effects have run, the selected    *)
(* channel has no unread-mention count: its entry in mentionCounts is      *)
(* absent or 0, whatever the order of channel selections, channel-list     *)
(* snapshots and new-message events.                                       *)
(***************************************************************************)
C29_SelectedChannelHasNoCount ==
  Settled => CountOf(s.mentionCounts, s.selectedChannelId) = 0

\* the watcher of the selected channel delivers new messages, a mention of
\* the viewer by another member among them, while another channel has a
\* count
C29_Witness ==
  /\ Settled
  /\ env.mounted
  /\ ViewerHasHandle
  /\ \E id \in DOMAIN subs : \E m \in Messages :
        /\ Watching(id)
        /\ subs[id].target = s.selectedChannelId
        /\ ~AuthorIsViewer(m)
        /\ TokensMatchViewer(m)
  /\ \E c \in Range(s.channels) : CountOf(s.mentionCounts, c) >= 1

(***************************************************************************)
(* C30: in every state where all pending effects have run, every channel   *)
(* id with a non-zero count in mentionCounts is the id of a channel of the *)
(* current channel list, and no count is held for a channel of another     *)
(* organization than the selected one.                                     *)
(***************************************************************************)
C30_CountsOnlyForListedChannels ==
  Settled =>
    \A c \in DOMAIN s.mentionCounts :
       s.mentionCounts[c] # 0
       => /\ c \in Range(s.channels)
          /\ env.channelOrg[c] = s.selectedOrganizationId

(***************************************************************************)
(* C31: whenever the selected channel id is not null it is the id of a     *)
(* channel of the current channel list, in every state where the effects   *)
(* of the last render have run: after a channel snapshot, an error of the  *)
(* channel listener, an organization switch.                               *)
(***************************************************************************)
C31_SelectedChannelInList ==
  Settled =>
    (s.selectedChannelId # Null => s.selectedChannelId \in Range(s.channels))

(***************************************************************************)
(* C32: the message list the app holds is the latest snapshot of the       *)
(* selected channel or is empty: in every state where the effects of the   *)
(* last render have run, a list that is not empty is a snapshot of the     *)
(* selected channel, so that the messages of the channel selected before   *)
(* are not held under the new one.                                         *)
(***************************************************************************)
C32_MessagesOfSelectedChannel ==
  Settled => (s.messages # Null => s.messages = s.selectedChannelId)

WatchersOf(c) == {id \in DOMAIN subs : Live(id, "mentions") /\ subs[id].target = c}
WatchedChannels == {c \in Channels : WatchersOf(c) # {}}

C34_OneWatcherPerChannel ==
  /\ \A c \in Channels : Cardinality(WatchersOf(c)) <= 1
  /\ (Settled /\ env.mounted)
     => WatchedChannels = IF NoViewerHandle(s) THEN {} ELSE Range(s.channels)

\* a viewer with a handle watches the two channels of the list
C34_Witness ==
  /\ Settled
  /\ env.mounted
  /\ ~NoViewerHandle(s)
  /\ Len(s.channels) = 2
  /\ WatchedChannels = Range(s.channels)

\* the channel list is there before the profile: nothing is watched
C34_WitnessNoProfile ==
  /\ Settled
  /\ env.mounted
  /\ s.profile = NoProfile
  /\ s.channels # <<>>
  /\ WatchedChannels = {}

(***************************************************************************)
(* C35: at any time at most one channel-list subscription and at most one  *)
(* message-list subscription are open; in every state where the effects of *)
(* the last render have run, the open channel-list subscription is the one *)
(* of the selected organization and the open message subscription the one  *)
(* of the selected channel, and there is one whenever there is a           *)
(* selection.  The subscription of the previous selection is closed when   *)
(* the next is opened.                                                     *)
(***************************************************************************)
OpenSubscriptionsOf(kind) ==
  {id \in DOMAIN subs : subs[id].kind = kind /\ subs[id].open}

C35_OneSubscriptionPerList ==
  /\ Cardinality(OpenSubscriptionsOf("channels")) <= 1
  /\ Cardinality(OpenSubscriptionsOf("messages")) <= 1
  /\ (Settled /\ env.mounted) =>
       /\ \A id \in OpenSubscriptionsOf("channels") :
            subs[id].target = s.selectedOrganizationId
       /\ \A id \in OpenSubscriptionsOf("messages") :
            subs[id].target = s.selectedChannelId
       /\ s.selectedOrganizationId # Null => OpenSubscriptionsOf("channels") # {}
       /\ s.selectedChannelId # Null => OpenSubscriptionsOf("messages") # {}

\* the second organization and its channel are selected, each with its
\* subscription
C35_Witness ==
  /\ Settled
  /\ env.mounted
  /\ s.selectedOrganizationId = "o2"
  /\ s.selectedChannelId = "c3"
  /\ \E id \in OpenSubscriptionsOf("channels") : subs[id].target = "o2"
  /\ \E id \in OpenSubscriptionsOf("messages") : subs[id].target = "c3"

(***************************************************************************)
(* C36: the result of an asynchronous load is applied to the state only    *)
(* for the user it was started for: a load of the profile or of the        *)
(* organization list whose continuation will still set state (it has       *)
(* neither completed nor been cancelled by the cleanup of its effect) is   *)
(* the load of the current authUser.  A load started for a user who has    *)
(* changed or signed out since is never applied.                           *)
(***************************************************************************)
C36_PendingLoadsOfCurrentUser ==
  env.mounted =>
    /\ loads.org # Null => loads.org = s.authUser
    /\ loads.profile # Null => loads.profile = s.authUser

(***************************************************************************)
(* The message composer (MessageInput.tsx): its React state s, the content *)
(* of the editor element in refs, and in env the values of the last render *)
(* (env.rendered: what the handlers close over and what the DOM shows),    *)
(* the disabled prop and the sends that onSend has not settled.  A handler *)
(* sets state; the component renders after the handler has returned.       *)
(***************************************************************************)
SendIds == {"m1", "m2"}

SendErrors == {"permission-denied", "Unable to send message."}

\* what the user leaves in the editor: nothing, a text, a zero-width space
EditorContents ==
  { <<>>,
    <<TextNode(<<"t">>)>>,
    <<TextNode(<<"zwsp">>)>> }

\* the html string of a tree, as plainTextFromHtml receives it
RECURSIVE InnerHtml(_)
InnerHtml(nodes) ==
  IF nodes = <<>> THEN <<>>
  ELSE LET node == Head(nodes)
       IN (IF node.kind = "text" THEN node.chars
           ELSE IF node.kind = "element"
                THEN <<"<" \o node.tag \o ">">> \o InnerHtml(node.kids)
                     \o <<"</" \o node.tag \o ">">>
                ELSE <<>>)
          \o InnerHtml(Tail(nodes))

\* the ids of the sends that have not settled
InFlight(sends) == {send.id : send \in sends}

\* the values a render of the composer holds
RenderOf(state, disabled) ==
  [isSending |-> state.isSending, error |-> state.error,
   attachments |-> state.attachments, editorHtml |-> state.editorHtml,
   disabled |-> disabled]

\* 213
editorIsEmpty(r) == Trim(plainTextFromHtml(InnerHtml(r.editorHtml))) = <<>>

\* 214
toolbarDisabled(r) == r.disabled \/ r.isSending

\* 46-51
resetEditor(w) == [w EXCEPT !.refs.editor = <<>>, !.s.editorHtml = <<>>]

Composing(kind, id) ==
  [s |-> s, refs |-> refs,
   env |-> [env EXCEPT !.event = [kind |-> kind, id |-> id,
                                  editor |-> refs.editor,
                                  attachments |-> s.attachments]]]

\* 53-68: submitMessage up to its await.  disabled, isSending and
\* attachments are those of the render whose handler is running; onSend is
\* handleSendMessage (App.tsx 558-577), which has a profile and a channel
\* whenever that render is not disabled.
submitMessage(w) ==
  LET r == w.env.rendered
      sanitizedHtml == sanitizeMessageHtml(w.refs.editor)
      plainText == Trim(plainTextFromHtml(InnerHtml(sanitizedHtml)))
  IN IF r.disabled \/ r.isSending THEN w
     ELSE IF (plainText = <<>> /\ r.attachments = <<>>) \/ r.disabled THEN w
     ELSE LET id == CHOOSE m \in SendIds : m \notin InFlight(w.env.sends)
          IN [w EXCEPT
                !.s.error = Null,
                !.s.isSending = TRUE,
                !.env.sends = @ \cup {[id |-> id, text |-> sanitizedHtml,
                                       attachments |-> r.attachments]}]

InitComposer ==
  /\ s = [editorHtml |-> <<>>, isSending |-> FALSE, error |-> Null,
          attachments |-> <<>>, showFileUpload |-> FALSE]
  /\ refs = [editor |-> <<>>]
  /\ env = [rendered |-> RenderOf(s, FALSE), disabled |-> FALSE,
            sends |-> {},
            event |-> [kind |-> "mount", id |-> Null, editor |-> <<>>,
                       attachments |-> <<>>]]
  /\ store = EmptyMap
  /\ subs = EmptyMap
  /\ fx = [ran |-> FALSE]
  /\ loads = EmptyMap

\* the component renders with its state and the prop of its parent
RenderComposer ==
  /\ env.rendered # RenderOf(s, env.disabled)
  /\ Show([Composing("render", Null) EXCEPT
             !.env.rendered = RenderOf(s, env.disabled)])

\* App renders with or without a selected channel and a profile (685)
ParentRendered(disabled) ==
  /\ disabled # env.disabled
  /\ Show([Composing("props", Null) EXCEPT
             !.env.disabled = disabled,
             !.env.rendered = RenderOf(s, disabled)])

\* the user edits the content of the editor: onInput, updateEditorState
\* (30-36).  The element is editable while the toolbar is not disabled (343).
EditorInput(content) ==
  /\ ~toolbarDisabled(env.rendered)
  /\ content # refs.editor
  /\ LET w == Composing("input", Null)
     IN Show([w EXCEPT !.refs.editor = content,
                       !.s.editorHtml = content,
                       !.s.error = IF env.rendered.error # Null THEN Null ELSE @])

\* handleFilesSelected, 217-220, with the first file of a message
AttachFile(id) ==
  /\ ~toolbarDisabled(env.rendered)
  /\ s.attachments = <<>>
  /\ Show([Composing("attach", id) EXCEPT
             !.s.attachments = Append(@, id),
             !.s.showFileUpload = FALSE])

\* 163-176: Enter without Shift and Alt in the editor
handleEditorKeyDown ==
  /\ ~toolbarDisabled(env.rendered)
  /\ InFlight(env.sends) # SendIds
  /\ Show(submitMessage(Composing("enter", Null)))

\* 80-83: the form is submitted by its button, which is disabled while the
\* render is disabled or sending or has nothing to send (367)
handleSubmit ==
  /\ ~toolbarDisabled(env.rendered)
  /\ ~(editorIsEmpty(env.rendered) /\ env.rendered.attachments = <<>>)
  /\ InFlight(env.sends) # SendIds
  /\ Show(submitMessage(Composing("submit", Null)))

\* 68-72, 75-77: onSend resolved
SendResolved(id) ==
  /\ \E send \in env.sends : send.id = id
  /\ LET w == Composing("sendResolved", id)
         cleared == [resetEditor(w) EXCEPT !.s.attachments = <<>>,
                                           !.s.showFileUpload = FALSE]
     IN Show([cleared EXCEPT
                !.s.isSending = FALSE,
                !.env.sends = {send \in @ : send.id # id}])

\* 73-77: onSend rejected with an Error of this message, or with a value
\* that is no Error
SendRejected(id, message) ==
  /\ \E send \in env.sends : send.id = id
  /\ Show([Composing("sendRejected", id) EXCEPT
             !.s.error = message,
             !.s.isSending = FALSE,
             !.env.sends = {send \in @ : send.id # id}])

NextComposer ==
  \/ RenderComposer
  \/ \E disabled \in BOOLEAN : ParentRendered(disabled)
  \/ \E content \in EditorContents : EditorInput(content)
  \/ \E id \in AttachmentFiles : AttachFile(id)
  \/ handleEditorKeyDown
  \/ handleSubmit
  \/ \E id \in SendIds : SendResolved(id)
  \/ \E id \in SendIds, message \in SendErrors : SendRejected(id, message)

SpecComposer == InitComposer /\ [][NextComposer]_vars

C38_ProfilePictureUrlRemoved ==
  env.event.kind = "deleteProfilePicture" => env.userDoc.profilePictureUrl = Null

====
